---- MODULE Spec2Model ----
(***************************************************************************)
(* Room-scoped authoritative state engine of Levelling.io                  *)
(* (backend/src/socket/handlers.ts).  Every socket.io event handler and    *)
(* every setTimeout callback is one atomic action: Node runs each of them  *)
(* to completion on a single thread.                                       *)
(***************************************************************************)
EXTENDS Bags, FiniteSets, Integers, Sequences, TLC

(***************************************************************************)
(* Bounds of the model                                                     *)
(***************************************************************************)
MaxConns == 2          \* connections
MaxRooms == 1          \* room identifiers the clients name (Spec)
MaxScore == 30         \* scores (Spec)
MaxCollects == 1       \* distinct collectibles consumed in a run
MaxPick == 3           \* collectibles of a room the clients aim at
MaxSeed == 0           \* random streams
MaxArenaRooms == 2     \* room identifiers the clients name (SpecArena)
MaxArenaScore == 20    \* scores (SpecArena)
MaxCombatScore == 60   \* scores (SpecCombat)
MaxHitScore == 100     \* score of one player before a hit (SpecHit)
MaxOtherScore == 1     \* score of the other player before a hit (SpecHit)
MaxLobbyScore == 30    \* scores (SpecLobby)
MaxSupplyCollects == 3 \* distinct collectibles consumed in a run (SpecSupply)
MaxSupplyScore == 30   \* scores (SpecSupply)
MaxDrainCollects == 10 \* distinct collectibles consumed in a run (SpecDrain)
MaxDrainScore == 60    \* scores (SpecDrain)
MaxDraws == 5          \* draws of one placement loop that are followed (SpecPlace)
MaxIslesCollects == 1  \* distinct collectibles consumed in a run (SpecIsles)
MaxIslesScore == 25    \* scores (SpecIsles)
MaxTrio == 3           \* connections (SpecTrio)
MaxTrioStart == 3      \* scores of two players before the first hit (SpecTrio)
MaxTrioScore == 30     \* scores (SpecTrio)
MaxTurns == 2          \* rotations applied in a row to one point (SpecTurn)
MaxTries == 3          \* attempts after which a fallback would have to act

Conns == 1..MaxConns
RoomIds == 1..MaxRooms
ArenaRooms == 1..MaxArenaRooms
Seeds == 0..MaxSeed

\* Identifiers a client can put in a hit payload; a connection that is not
\* a member of the room stands for an unknown player.
ClientIds == Conns

(***************************************************************************)
(* Program constants                                                       *)
(***************************************************************************)
FarmCount == 10
KillBonus == 20
Clearance == 120
RespawnDelay == 3000
NoTime == 0
DefaultColor == 1734143

SpawnPosition == [x |-> 400, y |-> 300]
ZeroVelocity == [x |-> 0, y |-> 0]

typesAndValues ==
  << [type |-> "crystal", value |-> 5],
     [type |-> "coin", value |-> 1],
     [type |-> "gem", value |-> 10] >>

\* Values of Math.random() * 1800 + 100, Math.random() * 1300 + 100 that
\* the sampling loops can draw; some fall within the clearance of an obstacle.
SamplePoints ==
  << [x |-> 300, y |-> 350],
     [x |-> 600, y |-> 600],
     [x |-> 1000, y |-> 700],
     [x |-> 1500, y |-> 1200],
     [x |-> 100, y |-> 100] >>

\* Payload values the clients send.
Names == {"Ann"}
MovePositions == {[x |-> 500, y |-> 350]}
MoveVelocities == {{}, {[x |-> 3, y |-> 0]}}
JoinProfiles ==
  { [name |-> "Ann", color |-> DefaultColor],
    [name |-> "Bob", color |-> 16711680] }

(***************************************************************************)
(* Map helpers (JavaScript Map: get / set / delete)                        *)
(***************************************************************************)
EmptyMap == [k \in {} |-> 0]
MapSet(m, k, v) == [j \in DOMAIN m \cup {k} |-> IF j = k THEN v ELSE m[j]]
MapDelete(m, k) == [j \in DOMAIN m \ {k} |-> m[j]]

(***************************************************************************)
(* Obstacle generator                                                      *)
(***************************************************************************)
\* Mutant of Rotate: rotation 3 turns the same way as rotation 1.
RotateSameWay(baseX, baseY, rotation, x, y) ==
  LET tempX == x - baseX
      tempY == y - baseY
  IN CASE rotation = 1 -> [x |-> baseX - tempY, y |-> baseY + tempX]
       [] rotation = 2 -> [x |-> baseX - (x - baseX), y |-> baseY - (y - baseY)]
       [] rotation = 3 -> [x |-> baseX - tempY, y |-> baseY + tempX]
       [] OTHER -> [x |-> x, y |-> y]

\* One point of an L shape after the rotation about (baseX, baseY), as the
\* stem loop computes it (lines 77-90).
Rotate(baseX, baseY, rotation, x, y) ==
  LET tempX == x - baseX
      tempY == y - baseY
  IN CASE rotation = 1 -> [x |-> baseX - tempY, y |-> baseY + tempX]
       [] rotation = 2 -> [x |-> baseX - (x - baseX), y |-> baseY - (y - baseY)]
       [] rotation = 3 -> [x |-> baseX + tempY, y |-> baseY - tempX]
       [] OTHER -> [x |-> x, y |-> y]

\* The same rotation as the foot loop computes it (lines 106-119).
RotateFoot(baseX, baseY, rotation, x, y) ==
  LET tempX == x - baseX
      tempY == y - baseY
  IN CASE rotation = 1 -> [x |-> baseX - tempY, y |-> baseY + tempX]
       [] rotation = 2 -> [x |-> baseX - (x - baseX), y |-> baseY - (y - baseY)]
       [] rotation = 3 -> [x |-> baseX + tempY, y |-> baseY - tempX]
       [] OTHER -> [x |-> x, y |-> y]

\* Mutant of createLShape: the foot loop starts at 0 and adds a sixth point.
createLShapeLongFoot(baseX, baseY, rotation) ==
  [k \in 1..6 |->
     LET p == IF k <= 3
              THEN Rotate(baseX, baseY, rotation, baseX, baseY + ((k - 1) * 60))
              ELSE RotateFoot(baseX, baseY, rotation,
                              baseX + ((k - 4) * 60), baseY + (2 * 60))
     IN [id |-> <<"obstacle-L", baseX, baseY, k - 1>>,
         x |-> p.x, y |-> p.y, part |-> IF k <= 3 THEN "stem" ELSE "foot"]]

createLShape(baseX, baseY, rotation) ==
  LET stem == [k \in 1..3 |->
                 LET i == k - 1
                     p == Rotate(baseX, baseY, rotation, baseX, baseY + (i * 60))
                 IN [id |-> <<"obstacle-L", baseX, baseY, i>>,
                     x |-> p.x, y |-> p.y, part |-> "stem"]]
      foot == [k \in 1..2 |->
                 LET i == k
                     p == RotateFoot(baseX, baseY, rotation,
                                     baseX + (i * 60), baseY + (2 * 60))
                 IN [id |-> <<"obstacle-L", baseX, baseY, i + 3>>,
                     x |-> p.x, y |-> p.y, part |-> "foot"]]
  IN stem \o foot

centerObstacles ==
  << [x |-> 1000, y |-> 750],
     [x |-> 1000, y |-> 650],
     [x |-> 1000, y |-> 850],
     [x |-> 900, y |-> 750],
     [x |-> 1100, y |-> 750] >>

NewRoomObstacles ==
  createLShape(300, 300, 0) \o createLShape(1700, 300, 1)
    \o createLShape(300, 1100, 3) \o createLShape(1700, 1100, 2)
    \o [k \in 1..Len(centerObstacles) |->
          [id |-> <<"obstacle-center", 0, 0, k - 1>>,
           x |-> centerObstacles[k].x, y |-> centerObstacles[k].y,
           part |-> "center"]]

\* The obstacles registry after generateObstacles(gameId).
generateObstacles(obs, gameId) ==
  IF gameId \notin DOMAIN obs THEN MapSet(obs, gameId, NewRoomObstacles) ELSE obs

(***************************************************************************)
(* Collectible placement                                                   *)
(***************************************************************************)
\* Mutant of ValidPosition: the first draw is taken, whatever its distance
\* from the obstacles.
ValidPositionAny(roomObstacles, p) == TRUE

\* Math.sqrt(dx*dx + dy*dy) > 120 for every obstacle of the room.
ValidPosition(roomObstacles, p) ==
  \A k \in 1..Len(roomObstacles) :
    LET dx == p.x - roomObstacles[k].x
        dy == p.y - roomObstacles[k].y
    IN dx * dx + dy * dy > Clearance * Clearance

\* The while (!validPosition) loop: draws from the random stream, starting
\* at draw k, until a draw is valid.
SamplePosition(roomObstacles, k) ==
  LET n == Len(SamplePoints)
      draw(j) == SamplePoints[((k + j) % n) + 1]
      ok == {j \in 0..(n - 1) : ValidPosition(roomObstacles, draw(j))}
      first == CHOOSE j \in ok : \A j2 \in ok : j <= j2
  IN draw(first)

(***************************************************************************)
(* State                                                                   *)
(***************************************************************************)
VARIABLES
  conn,               \* transport state of each connection: open / closed
  sockRooms,          \* socket.io rooms each socket has joined (line 274)
  rooms,              \* gameId -> (socket id -> PlayerData)   (line 23)
  globalFarmObjects,  \* gameId -> (object id -> FarmObject)   (line 24)
  obstacles,          \* gameId -> sequence of obstacle points (line 25)
  timers,             \* bag of pending setTimeout callbacks (lines 409, 492)
  nextId,             \* the next fresh farm object identifier (line 182)
  last,               \* the event handled by the last step and its outcome
  out,                \* the notifications the last step emitted, in order
  destroyed,          \* history: object ids named by a farmObjectDestroyed
  killedSince,        \* history: <<gameId, target>> named by a playerKilled
                      \* with no playerRespawned for it since
  placing,            \* locals of the placement loop (lines 186-200), when
                      \* the loop is followed draw by draw
  turning,            \* locals of the rotation of one point (lines 73-90):
                      \* base, the point before and after, and the
                      \* rotations applied, when rotations are followed
                      \* one by one
  roomOrder           \* the keys of rooms in insertion order, the order in
                      \* which rooms.forEach visits them (line 337)

vars == << conn, sockRooms, rooms, globalFarmObjects, obstacles, timers,
           nextId, last, out, destroyed, killedSince, placing, turning, roomOrder >>

(***************************************************************************)
(* Broadcast router                                                        *)
(***************************************************************************)
\* socket.to(gameId): every socket in the socket.io room except the sender.
ToRoom(sr, sock, gameId) == {c \in DOMAIN sr : gameId \in sr[c]} \ {sock}

\* socket.emit: the sender itself; the packet is dropped once it is closed.
ToSelf(cn, sock) == IF cn[sock] = "open" THEN {sock} ELSE {}

\* A notification: its event name, the room it is about, the connections
\* it is delivered to and its payload.
Note(event, room, to, data) ==
  [event |-> event, room |-> room, to |-> to, data |-> data]

\* Mutant of EmitRoomAndSelf: socket.to(gameId).emit(event, data) alone.
EmitRoomOnly(cn, sr, sock, gameId, event, data) ==
  << Note(event, gameId, ToRoom(sr, sock, gameId), data) >>

\* socket.to(gameId).emit(event, data); socket.emit(event, data);
EmitRoomAndSelf(cn, sr, sock, gameId, event, data) ==
  << Note(event, gameId, ToRoom(sr, sock, gameId), data),
     Note(event, gameId, ToSelf(cn, sock), data) >>

(***************************************************************************)
(* Collectible manager                                                     *)
(***************************************************************************)
\* The object created by iteration i of the creation loop; the random
\* stream of the run starts at draw seed.
NewFarmObject(roomObstacles, id, seed, i) ==
  LET type == typesAndValues[((seed + i) % Len(typesAndValues)) + 1]
  IN [id |-> id,
      position |-> SamplePosition(roomObstacles, seed + i),
      type |-> type.type,
      value |-> type.value]

\* Mutant of ToCreate: the current size is not subtracted.
ToCreateAll(count, size) == count

\* const toCreate = count - roomFarmObjects.size;
ToCreate(count, size) == count - size

\* generateFarmObjects(gameId) called on socket sock: the new registry, the
\* notifications emitted and the next fresh identifier.
generateFarmObjects(gfo, obs, rms, cn, sr, sock, gameId, seed, nid) ==
  LET gfo1 == IF gameId \notin DOMAIN gfo THEN MapSet(gfo, gameId, EmptyMap) ELSE gfo
      roomFarmObjects == gfo1[gameId]
      size == Cardinality(DOMAIN roomFarmObjects)
  IN IF size < FarmCount
     THEN LET toCreate == ToCreate(FarmCount, size)
              roomObstacles == IF gameId \in DOMAIN obs THEN obs[gameId] ELSE << >>
              fresh == nid..(nid + toCreate - 1)
              filled == [id \in DOMAIN roomFarmObjects \cup fresh |->
                           IF id \in fresh
                           THEN NewFarmObject(roomObstacles, id, seed, id - nid)
                           ELSE roomFarmObjects[id]]
          IN [gfo |-> MapSet(gfo1, gameId, filled),
              out |-> IF toCreate > 0 /\ gameId \in DOMAIN rms
                      THEN EmitRoomAndSelf(cn, sr, sock, gameId,
                                           "farmObjectsUpdate", filled)
                      ELSE << >>,
              nid |-> nid + toCreate]
     ELSE [gfo |-> gfo1, out |-> << >>, nid |-> nid]

(***************************************************************************)
(* Initial state: the module is loaded and handleSocketConnection has      *)
(* registered the handlers of every connection; no event has arrived yet   *)
(***************************************************************************)
InitEvent == [ev |-> "init", result |-> "none"]

\* let validPosition = false; let x = 0, y = 0; and no draw made yet.
PlacingStart ==
  [attempts |-> 0, position |-> [x |-> 0, y |-> 0], validPosition |-> FALSE]

\* No point is being rotated.
TurningStart ==
  [base |-> [x |-> 0, y |-> 0], from |-> [x |-> 0, y |-> 0],
   at |-> [x |-> 0, y |-> 0], applied |-> << >>]

Init ==
  /\ conn = [c \in Conns |-> "open"]
  /\ sockRooms = [c \in Conns |-> {}]
  /\ rooms = EmptyMap
  /\ globalFarmObjects = EmptyMap
  /\ obstacles = EmptyMap
  /\ timers = EmptyBag
  /\ nextId = 1
  /\ last = InitEvent
  /\ out = << >>
  /\ destroyed = {}
  /\ killedSince = {}
  /\ placing = PlacingStart
  /\ turning = TurningStart
  /\ roomOrder = << >>

(***************************************************************************)
(* socket.on('joinGame')                                                   *)
(***************************************************************************)
\* Mutant of NewPlayer: the player starts at the origin.
NewPlayerAtOrigin(c, name, color) ==
  [id |-> c, name |-> name, color |-> color,
   position |-> [x |-> 0, y |-> 0], velocity |-> ZeroVelocity,
   score |-> 0, isAlive |-> TRUE, respawnTime |-> NoTime]

NewPlayer(c, name, color) ==
  [id |-> c, name |-> name, color |-> color,
   position |-> SpawnPosition, velocity |-> ZeroVelocity,
   score |-> 0, isAlive |-> TRUE, respawnTime |-> NoTime]

\* Mutant of JoinRooms: the player record is written on every join.
JoinRoomsReset(rms, c, gameId, name, color) ==
  LET rms1 == IF gameId \notin DOMAIN rms THEN MapSet(rms, gameId, EmptyMap) ELSE rms
  IN MapSet(rms1, gameId, MapSet(rms1[gameId], c, NewPlayer(c, name, color)))

\* rooms after the room is created if absent and the player added if absent.
JoinRooms(rms, c, gameId, name, color) ==
  LET rms1 == IF gameId \notin DOMAIN rms THEN MapSet(rms, gameId, EmptyMap) ELSE rms
      roomPlayers == rms1[gameId]
  IN IF c \notin DOMAIN roomPlayers
     THEN MapSet(rms1, gameId, MapSet(roomPlayers, c, NewPlayer(c, name, color)))
     ELSE rms1

\* rooms.set(gameId, new Map()) puts a new key last in the iteration order;
\* an existing key keeps its place.
JoinOrder(order, rms, gameId) ==
  IF gameId \notin DOMAIN rms THEN Append(order, gameId) ELSE order

JoinGame(c, gameId, name, color, seed) ==
  LET rms == JoinRooms(rooms, c, gameId, name, color)
      sr == [sockRooms EXCEPT ![c] = @ \cup {gameId}]
      obs == generateObstacles(obstacles, gameId)
      gen == generateFarmObjects(globalFarmObjects, obs, rms, conn, sr, c,
                                 gameId, seed, nextId)
  IN /\ conn[c] = "open"
     /\ rooms' = rms
     /\ roomOrder' = JoinOrder(roomOrder, rooms, gameId)
     /\ sockRooms' = sr
     /\ obstacles' = obs
     /\ globalFarmObjects' = gen.gfo
     /\ nextId' = gen.nid
     /\ last' = [ev |-> "joinGame",
                  result |-> IF gameId \notin DOMAIN rooms THEN "created"
                             ELSE IF c \notin DOMAIN rooms[gameId] THEN "joined"
                             ELSE "rejoined"]
     /\ out' = gen.out \o
          << Note("currentPlayers", gameId, {c}, rms[gameId]),
             Note("obstaclesUpdate", gameId, {c}, obs[gameId]),
             Note("farmObjectsUpdate", gameId, {c}, gen.gfo[gameId]),
             Note("playerJoined", gameId, ToRoom(sr, c, gameId),
                  [playerId |-> c, name |-> name, color |-> color,
                   position |-> SpawnPosition, velocity |-> ZeroVelocity,
                   score |-> 0, isAlive |-> TRUE]) >>
     /\ UNCHANGED << conn, timers, destroyed, killedSince, placing, turning >>

(***************************************************************************)
(* socket.on('playerMove')                                                 *)
(***************************************************************************)
\* Mutant of MovePlayer: a payload without velocity stops the player.
MovePlayerZeroVelocity(player, position, velocity) ==
  [player EXCEPT !.position = position,
                 !.velocity = IF velocity # {}
                              THEN CHOOSE v \in velocity : TRUE
                              ELSE ZeroVelocity]

\* velocity is a set: empty when the payload carries no velocity.
MovePlayer(player, position, velocity) ==
  [player EXCEPT !.position = position,
                 !.velocity = IF velocity # {}
                              THEN CHOOSE v \in velocity : TRUE ELSE @]

\* Mutant of MovedRooms: the player is looked up in every room, not only in
\* rooms.get(gameId).
MovedRoomsEverywhere(rms, gameId, c, position, velocity) ==
  [g \in DOMAIN rms |->
     IF c \in DOMAIN rms[g]
     THEN [rms[g] EXCEPT ![c] = MovePlayer(@, position, velocity)]
     ELSE rms[g]]

\* The registry after rooms.get(gameId).get(socket.id) was moved.
MovedRooms(rms, gameId, c, position, velocity) ==
  [rms EXCEPT ![gameId][c] = MovePlayer(@, position, velocity)]

PlayerMove(c, gameId, position, velocity) ==
  LET member == gameId \in DOMAIN rooms /\ c \in DOMAIN rooms[gameId]
  IN /\ conn[c] = "open"
     /\ rooms' = IF member
                 THEN MovedRooms(rooms, gameId, c, position, velocity)
                 ELSE rooms
     /\ last' = [ev |-> "playerMove",
                 result |-> IF member THEN "moved" ELSE "ignored"]
     /\ out' = << Note("playerMoved", gameId, ToRoom(sockRooms, c, gameId),
                       [playerId |-> c, position |-> position,
                        velocity |-> velocity]) >>
     /\ UNCHANGED << conn, sockRooms, globalFarmObjects, obstacles, timers,
                     nextId, destroyed, killedSince, placing, turning, roomOrder >>

(***************************************************************************)
(* socket.on('disconnect')                                                 *)
(***************************************************************************)
\* Mutant of LeaveRooms: a room left empty stays in the registry.
LeaveRoomsLazy(rms, c) ==
  [g \in DOMAIN rms |-> IF c \in DOMAIN rms[g] THEN MapDelete(rms[g], c) ELSE rms[g]]

\* Mutant of LeaveRooms: the player leaves only the room of smallest
\* identifier that has it.
LeaveFirstRoom(rms, c) ==
  LET has == {g \in DOMAIN rms : c \in DOMAIN rms[g]}
      first == {g \in has : \A h \in has : g <= h}
      kept == {g \in DOMAIN rms : ~(g \in first /\ DOMAIN rms[g] = {c})}
  IN [g \in kept |-> IF g \in first THEN MapDelete(rms[g], c) ELSE rms[g]]

\* rooms.forEach: the player is deleted from every room that has it, and a
\* room left empty is deleted.
LeaveRooms(rms, c) ==
  LET kept == {g \in DOMAIN rms : DOMAIN rms[g] # {c}}
  IN [g \in kept |-> IF c \in DOMAIN rms[g] THEN MapDelete(rms[g], c) ELSE rms[g]]

\* rooms.delete(roomId) takes the key out of the iteration order; the keys
\* that stay in rms keep their relative order.
LeaveOrder(order, rms) ==
  LET Kept(g) == g \in DOMAIN rms
  IN SelectSeq(order, Kept)

\* One playerLeft per room the player was in; the name is read from the
\* room after the player was deleted from it, so it is undefined ({}).
\* rooms.forEach visits the rooms in insertion order: order is the sequence
\* of the keys of rms that are still to be visited.
RECURSIVE LeftNotes(_, _, _, _)
LeftNotes(rms, sr, c, order) ==
  IF order = << >> THEN << >>
  ELSE LET g == Head(order)
       IN (IF c \in DOMAIN rms[g]
           THEN << Note("playerLeft", g, ToRoom(sr, c, g),
                        [playerId |-> c, name |-> {}]) >>
           ELSE << >>) \o LeftNotes(rms, sr, c, Tail(order))

Disconnect(c) ==
  LET sr == [sockRooms EXCEPT ![c] = {}]
      rms == LeaveRooms(rooms, c)
  IN /\ conn[c] = "open"
     /\ conn' = [conn EXCEPT ![c] = "closed"]
     /\ sockRooms' = sr
     /\ rooms' = rms
     /\ roomOrder' = LeaveOrder(roomOrder, rms)
     /\ last' = [ev |-> "disconnect",
                 result |-> IF \E g \in DOMAIN rooms : c \in DOMAIN rooms[g]
                            THEN "left" ELSE "none"]
     /\ out' = LeftNotes(rooms, sr, c, roomOrder)
     /\ UNCHANGED << globalFarmObjects, obstacles, timers, nextId, destroyed,
                     killedSince, placing, turning >>

(***************************************************************************)
(* socket.on('playerShoot')                                                *)
(***************************************************************************)
\* Mutant of PlayerShoot: the shot is emitted to the whole room, the sender
\* included (io.to(gameId).emit).
PlayerShootEcho(c, gameId) ==
  /\ conn[c] = "open"
  /\ last' = [ev |-> "playerShoot", result |-> "relayed"]
  /\ out' = << Note("playerShot", gameId,
                    {d \in Conns : gameId \in sockRooms[d]}, [playerId |-> c]) >>
  /\ UNCHANGED << conn, sockRooms, rooms, globalFarmObjects, obstacles,
                  timers, nextId, destroyed, killedSince, placing, turning, roomOrder >>

PlayerShoot(c, gameId) ==
  /\ conn[c] = "open"
  /\ last' = [ev |-> "playerShoot", result |-> "relayed"]
  /\ out' = << Note("playerShot", gameId, ToRoom(sockRooms, c, gameId),
                    [playerId |-> c]) >>
  /\ UNCHANGED << conn, sockRooms, rooms, globalFarmObjects, obstacles,
                  timers, nextId, destroyed, killedSince, placing, turning, roomOrder >>

(***************************************************************************)
(* socket.on('playerHit') and its respawn timer                            *)
(***************************************************************************)
\* Mutant of PointsToSteal: Math.round in place of Math.floor.
PointsToStealRounded(targetScore) == (targetScore + 1) \div 2

\* Math.floor(target.score * 0.5) for a score that is an integer >= 0.
PointsToSteal(targetScore) == targetScore \div 2

\* Mutant of ShooterAfterHit: the stolen points are credited twice.
ShooterAfterHitTwice(shooter, pointsToSteal) ==
  [shooter EXCEPT !.score = @ + KillBonus + (2 * pointsToSteal)]

\* shooter.score += 20 + pointsToSteal;
ShooterAfterHit(shooter, pointsToSteal) ==
  [shooter EXCEPT !.score = @ + KillBonus + pointsToSteal]

\* Mutant of TargetAfterHit: the target pays what the shooter gains and the
\* score is not clamped.
TargetAfterHitNoClamp(target, pointsToSteal) ==
  [target EXCEPT !.score = @ - (KillBonus + pointsToSteal),
                 !.isAlive = FALSE,
                 !.respawnTime = RespawnDelay]

TargetAfterHit(target, pointsToSteal) ==
  LET score == target.score - pointsToSteal
  IN [target EXCEPT !.score = IF score < 0 THEN 0 ELSE score,
                    !.isAlive = FALSE,
                    !.respawnTime = RespawnDelay]

\* Mutant of HitResult: no self-hit test.
HitResultNoSelfTest(rms, gameId, shooterId, targetId) ==
  IF gameId \notin DOMAIN rms THEN "noRoom"
  ELSE IF shooterId \notin DOMAIN rms[gameId] THEN "noShooter"
  ELSE IF targetId \notin DOMAIN rms[gameId] THEN "noTarget"
  ELSE IF ~rms[gameId][targetId].isAlive THEN "dead"
  ELSE "kill"

\* Mutant of HitResult: no test of the target's alive flag.
HitResultNoAliveTest(rms, gameId, shooterId, targetId) ==
  IF shooterId = targetId THEN "self"
  ELSE IF gameId \notin DOMAIN rms THEN "noRoom"
  ELSE IF shooterId \notin DOMAIN rms[gameId] THEN "noShooter"
  ELSE IF targetId \notin DOMAIN rms[gameId] THEN "noTarget"
  ELSE "kill"

\* Mutant of HitResult: the alive flag is read from the shooter.
HitResultAliveShooter(rms, gameId, shooterId, targetId) ==
  IF shooterId = targetId THEN "self"
  ELSE IF gameId \notin DOMAIN rms THEN "noRoom"
  ELSE IF shooterId \notin DOMAIN rms[gameId] THEN "noShooter"
  ELSE IF targetId \notin DOMAIN rms[gameId] THEN "noTarget"
  ELSE IF ~rms[gameId][shooterId].isAlive THEN "dead"
  ELSE "kill"

\* The guard of the handler, in the order of its tests.
HitResult(rms, gameId, shooterId, targetId) ==
  IF shooterId = targetId THEN "self"
  ELSE IF gameId \notin DOMAIN rms THEN "noRoom"
  ELSE IF shooterId \notin DOMAIN rms[gameId] THEN "noShooter"
  ELSE IF targetId \notin DOMAIN rms[gameId] THEN "noTarget"
  ELSE IF ~rms[gameId][targetId].isAlive THEN "dead"
  ELSE "kill"

RespawnTimer(c, gameId, targetId) ==
  [kind |-> "respawn", socket |-> c, gameId |-> gameId, targetId |-> targetId]

\* Mutant of ShooterKey: the shooter is the socket that sent the event.
ShooterKeySender(c, shooterId) == c

\* "Use the shooterId from the event instead of socket.id": the key under
\* which the shooter is looked up.
ShooterKey(c, shooterId) == shooterId

\* The playerHit handler on socket c: its outcome, the player registry, the
\* pending timers, the notifications and the kill history it leaves.
HitEffect(c, gameId, shooterId, targetId) ==
  LET key == ShooterKey(c, shooterId)
      result == HitResult(rooms, gameId, key, targetId)
  IN IF result = "kill"
     THEN LET pointsToSteal == PointsToSteal(rooms[gameId][targetId].score)
              shooter == ShooterAfterHit(rooms[gameId][key], pointsToSteal)
              target == TargetAfterHit(rooms[gameId][targetId], pointsToSteal)
          IN [result |-> result,
              rooms |-> [rooms EXCEPT ![gameId][key] = shooter,
                                      ![gameId][targetId] = target],
              timers |-> timers (+) SetToBag({RespawnTimer(c, gameId, targetId)}),
              out |-> EmitRoomAndSelf(conn, sockRooms, c, gameId, "playerKilled",
                          [killerId |-> shooterId, targetId |-> targetId,
                           killerScore |-> shooter.score,
                           targetScore |-> target.score,
                           pointsStolen |-> pointsToSteal]),
              killedSince |-> killedSince \cup {<<gameId, targetId>>}]
     ELSE [result |-> result, rooms |-> rooms, timers |-> timers,
           out |-> << >>, killedSince |-> killedSince]

PlayerHitAny(c, gameId, shooterId, targetId) ==
  LET e == HitEffect(c, gameId, shooterId, targetId)
  IN /\ conn[c] = "open"
     /\ last' = [ev |-> "playerHit", result |-> e.result]
     /\ rooms' = e.rooms
     /\ timers' = e.timers
     /\ out' = e.out
     /\ killedSince' = e.killedSince
     /\ UNCHANGED << conn, sockRooms, globalFarmObjects, obstacles, nextId,
                     destroyed, placing, turning, roomOrder >>

\* The handler, for the hits that leave the scores within cap.
PlayerHit(c, gameId, shooterId, targetId, cap) ==
  /\ PlayerHitAny(c, gameId, shooterId, targetId)
  /\ \A g \in DOMAIN rooms' : \A p \in DOMAIN rooms'[g] :
       rooms'[g][p].score <= cap

\* Values of the respawn position Math.random() can give.
RespawnPoints == {SamplePoints[seed + 1] : seed \in Seeds}

\* Mutant of RespawnedPlayer: the alive flag is not set.
RespawnedPlayerStillDead(player, position) ==
  [player EXCEPT !.position = position, !.velocity = ZeroVelocity]

\* Mutant of RespawnedPlayer: the velocity is not reset.
RespawnedPlayerMoving(player, position) ==
  [player EXCEPT !.isAlive = TRUE, !.position = position]

RespawnedPlayer(player, position) ==
  [player EXCEPT !.isAlive = TRUE, !.position = position,
                 !.velocity = ZeroVelocity]

RespawnFires(tm, position) ==
  LET gameId == tm.gameId
      targetId == tm.targetId
      present == gameId \in DOMAIN rooms /\ targetId \in DOMAIN rooms[gameId]
  IN /\ tm.kind = "respawn"
     /\ BagIn(tm, timers)
     /\ timers' = timers (-) SetToBag({tm})
     /\ last' = [ev |-> "respawnTimer",
                 result |-> IF present THEN "respawned" ELSE "gone"]
     /\ IF present
        THEN /\ rooms' = [rooms EXCEPT ![gameId][targetId] =
                                          RespawnedPlayer(@, position)]
             /\ out' = EmitRoomAndSelf(conn, sockRooms, tm.socket, gameId,
                           "playerRespawned",
                           [playerId |-> targetId, position |-> position])
             /\ killedSince' = killedSince \ {<<gameId, targetId>>}
        ELSE /\ out' = << >>
             /\ UNCHANGED << rooms, killedSince >>
     /\ UNCHANGED << conn, sockRooms, globalFarmObjects, obstacles, nextId,
                     destroyed, placing, turning, roomOrder >>

(***************************************************************************)
(* socket.on('farmObjectHit'), socket.on('collectResource') and the        *)
(* repopulation timer                                                      *)
(***************************************************************************)
\* The guard of the farmObjectHit handler, in the order of its tests.
ConsumeResult(gfo, rms, c, gameId, objectId) ==
  IF gameId \notin DOMAIN gfo THEN "noFarm"
  ELSE IF objectId \notin DOMAIN gfo[gameId]
       THEN (IF objectId \in destroyed THEN "gone" ELSE "noObject")
  ELSE IF gameId \notin DOMAIN rms THEN "noRoom"
  ELSE IF c \notin DOMAIN rms[gameId] THEN "notMember"
  ELSE "collected"

\* The guard of the collectResource handler, in the order of its tests.
CollectResult(gfo, rms, c, gameId, resourceId) ==
  IF gameId \notin DOMAIN gfo THEN "noFarm"
  ELSE IF resourceId \notin DOMAIN gfo[gameId]
       THEN (IF resourceId \in destroyed THEN "gone" ELSE "noObject")
  ELSE IF gameId \notin DOMAIN rms THEN "noRoom"
  ELSE IF c \notin DOMAIN rms[gameId] THEN "notMember"
  ELSE "collected"

FarmTimer(c, gameId) == [kind |-> "farm", socket |-> c, gameId |-> gameId]

\* Mutant of SetTimeout: the callback is not scheduled.
SetTimeoutDropped(tms, tm) == tms

\* setTimeout(callback, delay): one more pending callback.
SetTimeout(tms, tm) == tms (+) SetToBag({tm})

\* Mutant of CreditedPlayer: every object is worth 10 points.
CreditedPlayerFlat(player, farmObject) ==
  [player EXCEPT !.score = @ + 10]

\* Mutant of RemoveObject: the object is not deleted.
RemoveObjectNot(roomFarmObjects, objectId) == roomFarmObjects

\* roomFarmObjects.delete(objectId)
RemoveObject(roomFarmObjects, objectId) == MapDelete(roomFarmObjects, objectId)

CreditedPlayer(player, farmObject) ==
  [player EXCEPT !.score = @ + farmObject.value]

\* Mutant of CollectedPlayer: a resource collected by touch is worth double.
CollectedPlayerDouble(player, farmObject) ==
  [player EXCEPT !.score = @ + (2 * farmObject.value)]

\* player.score += farmObject.value in the collectResource handler.
CollectedPlayer(player, farmObject) ==
  [player EXCEPT !.score = @ + farmObject.value]

\* roomFarmObjects.delete(resourceId)
RemoveResource(roomFarmObjects, resourceId) == MapDelete(roomFarmObjects, resourceId)

\* What a handler leaves when its guard fails.
NoEffect(result) ==
  [result |-> result, rooms |-> rooms, globalFarmObjects |-> globalFarmObjects,
   out |-> << >>, timers |-> timers, destroyed |-> destroyed]

\* Mutant of ConsumeEffect: setTimeout is called after the test of the
\* room, outside the test of the player.
ConsumeEffectEarlyTimer(c, gameId, objectId) ==
  LET result == ConsumeResult(globalFarmObjects, rooms, c, gameId, objectId)
  IN IF result = "collected"
     THEN LET farmObject == globalFarmObjects[gameId][objectId]
              player == CreditedPlayer(rooms[gameId][c], farmObject)
          IN [result |-> result,
              rooms |-> [rooms EXCEPT ![gameId][c] = player],
              globalFarmObjects |->
                [globalFarmObjects EXCEPT ![gameId] = RemoveObject(@, objectId)],
              out |-> EmitRoomAndSelf(conn, sockRooms, c, gameId,
                          "farmObjectDestroyed",
                          [objectId |-> objectId, playerId |-> c,
                           playerScore |-> player.score]),
              timers |-> SetTimeout(timers, FarmTimer(c, gameId)),
              destroyed |-> destroyed \cup {objectId}]
     ELSE IF result = "notMember"
     THEN [NoEffect(result) EXCEPT
             !.timers = SetTimeout(timers, FarmTimer(c, gameId))]
     ELSE NoEffect(result)

\* The farmObjectHit handler on socket c: its outcome, the registries, the
\* notifications and the pending timers it leaves.
ConsumeEffect(c, gameId, objectId) ==
  LET result == ConsumeResult(globalFarmObjects, rooms, c, gameId, objectId)
  IN IF result = "collected"
     THEN LET farmObject == globalFarmObjects[gameId][objectId]
              player == CreditedPlayer(rooms[gameId][c], farmObject)
          IN [result |-> result,
              rooms |-> [rooms EXCEPT ![gameId][c] = player],
              globalFarmObjects |->
                [globalFarmObjects EXCEPT ![gameId] = RemoveObject(@, objectId)],
              out |-> EmitRoomAndSelf(conn, sockRooms, c, gameId,
                          "farmObjectDestroyed",
                          [objectId |-> objectId, playerId |-> c,
                           playerScore |-> player.score]),
              timers |-> SetTimeout(timers, FarmTimer(c, gameId)),
              destroyed |-> destroyed \cup {objectId}]
     ELSE NoEffect(result)

\* The collectResource handler on socket c, likewise.
CollectEffect(c, gameId, resourceId) ==
  LET result == CollectResult(globalFarmObjects, rooms, c, gameId, resourceId)
  IN IF result = "collected"
     THEN LET farmObject == globalFarmObjects[gameId][resourceId]
              player == CollectedPlayer(rooms[gameId][c], farmObject)
          IN [result |-> result,
              rooms |-> [rooms EXCEPT ![gameId][c] = player],
              globalFarmObjects |->
                [globalFarmObjects EXCEPT ![gameId] = RemoveResource(@, resourceId)],
              out |-> EmitRoomAndSelf(conn, sockRooms, c, gameId,
                          "farmObjectDestroyed",
                          [objectId |-> resourceId, playerId |-> c,
                           playerScore |-> player.score]),
              timers |-> SetTimeout(timers, FarmTimer(c, gameId)),
              destroyed |-> destroyed \cup {resourceId}]
     ELSE NoEffect(result)

\* The step of a consume handler whose effect is e, for the runs that
\* consume at most collects distinct objects and keep the scores within cap.
Consume(ev, c, e, collects, cap) ==
  /\ conn[c] = "open"
  /\ last' = [ev |-> ev, result |-> e.result]
  /\ Cardinality(e.destroyed) <= collects
  /\ \A g \in DOMAIN e.rooms : \A p \in DOMAIN e.rooms[g] :
       e.rooms[g][p].score <= cap
  /\ rooms' = e.rooms
  /\ globalFarmObjects' = e.globalFarmObjects
  /\ out' = e.out
  /\ timers' = e.timers
  /\ destroyed' = e.destroyed
  /\ UNCHANGED << conn, sockRooms, obstacles, nextId, killedSince, placing, turning, roomOrder >>

FarmObjectHitWithin(c, gameId, objectId, collects, cap) ==
  Consume("farmObjectHit", c, ConsumeEffect(c, gameId, objectId), collects, cap)

CollectResourceWithin(c, gameId, resourceId, collects, cap) ==
  Consume("collectResource", c, CollectEffect(c, gameId, resourceId), collects, cap)

FarmObjectHit(c, gameId, objectId) ==
  FarmObjectHitWithin(c, gameId, objectId, MaxCollects, MaxScore)

CollectResource(c, gameId, resourceId) ==
  CollectResourceWithin(c, gameId, resourceId, MaxCollects, MaxScore)

\* setTimeout(() => generateFarmObjects(gameId), 2000) fires.
FarmTimerFires(tm, seed) ==
  LET gen == generateFarmObjects(globalFarmObjects, obstacles, rooms, conn,
                                 sockRooms, tm.socket, tm.gameId, seed, nextId)
  IN /\ tm.kind = "farm"
     /\ BagIn(tm, timers)
     /\ timers' = timers (-) SetToBag({tm})
     /\ globalFarmObjects' = gen.gfo
     /\ nextId' = gen.nid
     /\ out' = gen.out
     /\ last' = [ev |-> "farmTimer",
                 result |-> IF gen.nid = nextId THEN "full"
                            ELSE IF tm.gameId \in DOMAIN rooms THEN "refilled"
                            ELSE "refilledNoRoom"]
     /\ UNCHANGED << conn, sockRooms, rooms, obstacles, destroyed, killedSince,
                     placing, turning, roomOrder >>

(***************************************************************************)
(* Events: each handler with every payload the clients can send            *)
(***************************************************************************)
\* Object identifiers the clients name for room g: the MaxPick oldest
\* objects of the room, every identifier already destroyed, and one that
\* does not exist yet.
ObjectIds(g) ==
  LET present == IF g \in DOMAIN globalFarmObjects
                 THEN DOMAIN globalFarmObjects[g] ELSE {}
  IN {i \in present : Cardinality({j \in present : j < i}) < MaxPick}
       \cup destroyed \cup {nextId}

PendingTimers == BagToSet(timers)

DoJoin(gs) ==
  \E c \in Conns, g \in gs, name \in Names, seed \in Seeds :
    JoinGame(c, g, name, DefaultColor, seed)

DoJoinProfile(gs) ==
  \E c \in Conns, g \in gs, pr \in JoinProfiles, seed \in Seeds :
    JoinGame(c, g, pr.name, pr.color, seed)

DoMove(gs) ==
  \E c \in Conns, g \in gs, p \in MovePositions, v \in MoveVelocities :
    PlayerMove(c, g, p, v)

DoDisconnect == \E c \in Conns : Disconnect(c)

DoShoot(gs) == \E c \in Conns, g \in gs : PlayerShoot(c, g)

DoHit(gs, cap) ==
  \E c \in Conns, g \in gs, s \in ClientIds, t \in ClientIds :
    PlayerHit(c, g, s, t, cap)

DoRespawn == \E tm \in PendingTimers, p \in RespawnPoints : RespawnFires(tm, p)

DoFarmObjectHit(gs) ==
  \E c \in Conns, g \in gs : \E id \in ObjectIds(g) : FarmObjectHit(c, g, id)

DoCollectResource(gs) ==
  \E c \in Conns, g \in gs : \E id \in ObjectIds(g) : CollectResource(c, g, id)

DoFarmTimer == \E tm \in PendingTimers, seed \in Seeds : FarmTimerFires(tm, seed)

(***************************************************************************)
(* Spec: every event, one room identifier                                  *)
(***************************************************************************)
Next ==
  \/ DoJoin(RoomIds)
  \/ DoMove(RoomIds)
  \/ DoDisconnect
  \/ DoShoot(RoomIds)
  \/ DoHit(RoomIds, MaxScore)
  \/ DoRespawn
  \/ DoFarmObjectHit(RoomIds)
  \/ DoCollectResource(RoomIds)
  \/ DoFarmTimer

Spec == Init /\ [][Next]_vars

(***************************************************************************)
(* SpecArena: joins, departures and combat over several room identifiers   *)
(***************************************************************************)
NextArena ==
  \/ DoJoin(ArenaRooms)
  \/ DoDisconnect
  \/ DoHit(ArenaRooms, MaxArenaScore)
  \/ DoRespawn

SpecArena == Init /\ [][NextArena]_vars

(***************************************************************************)
(* SpecCombat: joins, departures and repeated combat                       *)
(***************************************************************************)
NextCombat ==
  \/ DoJoin(RoomIds)
  \/ DoDisconnect
  \/ DoHit(RoomIds, MaxCombatScore)
  \/ DoRespawn

SpecCombat == Init /\ [][NextCombat]_vars

(***************************************************************************)
(* SpecCombatLive: SpecCombat with the scheduling of Node's timers: every  *)
(* pending setTimeout callback is run once its delay has passed            *)
(***************************************************************************)
RespawnTimers ==
  {RespawnTimer(c, g, t) : c \in Conns, g \in RoomIds, t \in ClientIds}

FairRespawn ==
  \A tm \in RespawnTimers :
    WF_vars(\E p \in RespawnPoints : RespawnFires(tm, p))

SpecCombatLive == Init /\ [][NextCombat]_vars /\ FairRespawn

(***************************************************************************)
(* SpecSupply: joins, departures, consumption of several collectibles and  *)
(* the repopulation timers                                                 *)
(***************************************************************************)
DoSupplyHit ==
  \E c \in Conns, g \in RoomIds : \E id \in ObjectIds(g) :
    FarmObjectHitWithin(c, g, id, MaxSupplyCollects, MaxSupplyScore)

DoSupplyCollect ==
  \E c \in Conns, g \in RoomIds : \E id \in ObjectIds(g) :
    CollectResourceWithin(c, g, id, MaxSupplyCollects, MaxSupplyScore)

NextSupply ==
  \/ DoJoin(RoomIds)
  \/ DoDisconnect
  \/ DoSupplyHit
  \/ DoSupplyCollect
  \/ DoFarmTimer

SpecSupply == Init /\ [][NextSupply]_vars

(***************************************************************************)
(* SpecSupplyLive: SpecSupply with the scheduling of Node's timers         *)
(***************************************************************************)
FarmTimers == {FarmTimer(c, g) : c \in Conns, g \in RoomIds}

\* The callback of timer tm runs: one step of the repopulation.
RefillFires(tm) == \E seed \in Seeds : FarmTimerFires(tm, seed)

\* Weak fairness of every repopulation callback, WF_vars(RefillFires(tm)),
\* with the enabling condition written out: the callback can run exactly
\* when tm is pending (FarmTimerFires has no other guard, and it always
\* changes timers), so "continuously enabled implies taken infinitely
\* often" reads "infinitely often not pending, or infinitely often run".
FairRefill ==
  \A tm \in FarmTimers :
    \/ []<>(~BagIn(tm, timers))
    \/ []<><<RefillFires(tm)>>_vars

SpecSupplyLive == Init /\ [][NextSupply]_vars /\ FairRefill

(***************************************************************************)
(* SpecDrain: one cooldown period, that is the events that arrive before   *)
(* the first repopulation timer fires: each client joins once, and the     *)
(* clients shoot the oldest collectible of a room, as many times as the    *)
(* room holds objects                                                      *)
(***************************************************************************)
\* joinGame from a socket that is not in the room yet.
DoFirstJoin ==
  \E c \in Conns, g \in RoomIds, name \in Names, seed \in Seeds :
    /\ g \notin sockRooms[c]
    /\ JoinGame(c, g, name, DefaultColor, seed)

\* The identifier the clients aim at in room g: its oldest collectible.
OldestIds(g) ==
  LET present == IF g \in DOMAIN globalFarmObjects
                 THEN DOMAIN globalFarmObjects[g] ELSE {}
  IN {i \in present : \A j \in present : i <= j}

DoDrainHit ==
  \E c \in Conns, g \in RoomIds : \E id \in OldestIds(g) :
    FarmObjectHitWithin(c, g, id, MaxDrainCollects, MaxDrainScore)

NextDrain ==
  \/ DoFirstJoin
  \/ DoDrainHit

SpecDrain == Init /\ [][NextDrain]_vars

(***************************************************************************)
(* SpecIsles: two room identifiers with every event that names a room:     *)
(* the first client joins every room and the others the first room, once   *)
(* each; moves, hits, collects naming the oldest collectible of any room,  *)
(* and both kinds of timer, tagged with either room                        *)
(***************************************************************************)
\* The joins the clients make: connection 1 joins every room, the other
\* connections join the first room.
IslesJoins ==
  {<<c, g>> \in Conns \X ArenaRooms : c = 1 \/ \A h \in ArenaRooms : g <= h}

\* joinGame for room g from a socket that is not in that room yet.
DoIslesJoin ==
  \E j \in IslesJoins, name \in Names, seed \in Seeds :
    /\ j[2] \notin sockRooms[j[1]]
    /\ JoinGame(j[1], j[2], name, DefaultColor, seed)

\* The identifiers the clients name: the oldest collectible of each room,
\* whatever room the event is tagged with.
IslesObjectIds == UNION {OldestIds(g) : g \in ArenaRooms}

DoIslesMove ==
  \E c \in Conns, g \in ArenaRooms, p \in MovePositions :
    PlayerMove(c, g, p, {})

DoIslesHitObject ==
  \E c \in Conns, g \in ArenaRooms : \E id \in IslesObjectIds :
    FarmObjectHitWithin(c, g, id, MaxIslesCollects, MaxIslesScore)

DoIslesCollect ==
  \E c \in Conns, g \in ArenaRooms : \E id \in IslesObjectIds :
    CollectResourceWithin(c, g, id, MaxIslesCollects, MaxIslesScore)

NextIsles ==
  \/ DoIslesJoin
  \/ DoIslesMove
  \/ DoHit(ArenaRooms, MaxIslesScore)
  \/ DoRespawn
  \/ DoIslesHitObject
  \/ DoIslesCollect
  \/ DoFarmTimer

SpecIsles == Init /\ [][NextIsles]_vars

(***************************************************************************)
(* SpecHit: one hit between two members whose scores are drawn from        *)
(* 0..MaxHitScore and 0..MaxOtherScore                                     *)
(***************************************************************************)
\* The room of the two players: the first room identifier.
HitRoom == CHOOSE g \in RoomIds : \A h \in RoomIds : g <= h

InitHit ==
  \E a \in 0..MaxHitScore, b \in 0..MaxOtherScore :
    LET obs == generateObstacles(EmptyMap, HitRoom)
        rms == [g \in {HitRoom} |->
                 [c \in Conns |->
                    [NewPlayer(c, "Ann", DefaultColor) EXCEPT
                       !.score = IF c = 1 THEN a ELSE b]]]
        sr == [c \in Conns |-> {HitRoom}]
        open == [c \in Conns |-> "open"]
        gen == generateFarmObjects(EmptyMap, obs, rms, open, sr, 1, HitRoom, 0, 1)
    IN /\ conn = open
       /\ sockRooms = sr
       /\ rooms = rms
       /\ obstacles = obs
       /\ globalFarmObjects = gen.gfo
       /\ nextId = gen.nid
       /\ timers = EmptyBag
       /\ last = InitEvent
       /\ out = << >>
       /\ destroyed = {}
       /\ killedSince = {}
       /\ placing = PlacingStart
       /\ turning = TurningStart
       /\ roomOrder = << HitRoom >>

\* A hit event, as long as nobody has been killed yet in the run.
DoFirstHit ==
  \E c \in Conns, s \in ClientIds, t \in ClientIds :
    /\ \A p \in DOMAIN rooms[HitRoom] : rooms[HitRoom][p].respawnTime = NoTime
    /\ PlayerHitAny(c, HitRoom, s, t)

NextHit == DoFirstHit \/ DoRespawn

SpecHit == InitHit /\ [][NextHit]_vars

(***************************************************************************)
(* SpecTrio: combat among three connections: two members whose scores are  *)
(* drawn from 0..MaxTrioStart and a third connection that is a member of   *)
(* the room or not; hit events from every connection naming every pair     *)
(***************************************************************************)
Trio == 1..MaxTrio

InitTrio ==
  \E a \in 0..MaxTrioStart, b \in 0..MaxTrioStart, third \in BOOLEAN :
    LET members == {c \in Trio : c <= 2 \/ third}
        obs == generateObstacles(EmptyMap, HitRoom)
        rms == [g \in {HitRoom} |->
                 [c \in members |->
                    [NewPlayer(c, "Ann", DefaultColor) EXCEPT
                       !.score = IF c = 1 THEN a ELSE IF c = 2 THEN b ELSE 1]]]
        sr == [c \in Trio |-> IF c \in members THEN {HitRoom} ELSE {}]
        open == [c \in Trio |-> "open"]
        gen == generateFarmObjects(EmptyMap, obs, rms, open, sr, 1, HitRoom, 0, 1)
    IN /\ conn = open
       /\ sockRooms = sr
       /\ rooms = rms
       /\ obstacles = obs
       /\ globalFarmObjects = gen.gfo
       /\ nextId = gen.nid
       /\ timers = EmptyBag
       /\ last = InitEvent
       /\ out = << >>
       /\ destroyed = {}
       /\ killedSince = {}
       /\ placing = PlacingStart
       /\ turning = TurningStart
       /\ roomOrder = << HitRoom >>

DoTrioHit ==
  \E c \in Trio, s \in Trio, t \in Trio :
    PlayerHit(c, HitRoom, s, t, MaxTrioScore)

NextTrio == DoTrioHit \/ DoRespawn

SpecTrio == InitTrio /\ [][NextTrio]_vars

(***************************************************************************)
(* SpecLobby: joins under two names and colors, moves, departures and      *)
(* combat                                                                  *)
(***************************************************************************)
NextLobby ==
  \/ DoJoinProfile(RoomIds)
  \/ DoMove(RoomIds)
  \/ DoDisconnect
  \/ DoHit(RoomIds, MaxLobbyScore)
  \/ DoRespawn

SpecLobby == Init /\ [][NextLobby]_vars

(***************************************************************************)
(* SpecPlace: the creation loop of generateFarmObjects followed draw by    *)
(* draw, for the first join of a room.  The handler actions above take the *)
(* result of the loop in one step; here each Math.random() pair is a step, *)
(* and nothing else runs until the loop ends, as in Node.                  *)
(***************************************************************************)
\* Values of (x, y) a draw of the loop can give: within the clearance of an
\* obstacle, clear of every obstacle, within the clearance of another one.
PlaceDraws == {SamplePoints[1], SamplePoints[2], SamplePoints[3]}

\* joinGame of connection 1 has created the room, its obstacles and its
\* empty collectible map, and generateFarmObjects enters its creation loop.
InitPlace ==
  LET join == NewPlayer(1, "Ann", DefaultColor)
  IN /\ conn = [c \in Conns |-> "open"]
     /\ sockRooms = [c \in Conns |-> IF c = 1 THEN {HitRoom} ELSE {}]
     /\ rooms = MapSet(EmptyMap, HitRoom, MapSet(EmptyMap, 1, join))
     /\ obstacles = generateObstacles(EmptyMap, HitRoom)
     /\ globalFarmObjects = MapSet(EmptyMap, HitRoom, EmptyMap)
     /\ timers = EmptyBag
     /\ nextId = 1
     /\ last = InitEvent
     /\ out = << >>
     /\ destroyed = {}
     /\ killedSince = {}
     /\ placing = PlacingStart
     /\ turning = TurningStart
     /\ roomOrder = << HitRoom >>

\* One turn of while (!validPosition): a draw and its test.
PlaceDraw(p) ==
  /\ Cardinality(DOMAIN globalFarmObjects[HitRoom]) < FarmCount
  /\ ~placing.validPosition
  /\ placing.attempts < MaxDraws
  /\ placing' = [attempts |-> placing.attempts + 1,
                 position |-> p,
                 validPosition |-> ValidPosition(obstacles[HitRoom], p)]
  /\ last' = [ev |-> "placement",
              result |-> IF placing'.validPosition THEN "valid" ELSE "retry"]
  /\ out' = << >>
  /\ UNCHANGED << conn, sockRooms, rooms, globalFarmObjects, obstacles, timers,
                  nextId, destroyed, killedSince, turning, roomOrder >>

\* The loop has ended: roomFarmObjects.set(id, ...) and the next iteration
\* of the creation loop.
PlaceSet ==
  LET i == Cardinality(DOMAIN globalFarmObjects[HitRoom])
      type == typesAndValues[(i % Len(typesAndValues)) + 1]
      farmObject == [id |-> nextId, position |-> placing.position,
                     type |-> type.type, value |-> type.value]
  IN /\ placing.validPosition
     /\ globalFarmObjects' =
          [globalFarmObjects EXCEPT ![HitRoom] = MapSet(@, nextId, farmObject)]
     /\ nextId' = nextId + 1
     /\ placing' = PlacingStart
     /\ last' = [ev |-> "placement", result |-> "set"]
     /\ out' = << >>
     /\ UNCHANGED << conn, sockRooms, rooms, obstacles, timers, destroyed,
                     killedSince, turning, roomOrder >>

DoPlaceDraw == \E p \in PlaceDraws : PlaceDraw(p)

NextPlace == DoPlaceDraw \/ PlaceSet

SpecPlace == InitPlace /\ [][NextPlace]_vars

(***************************************************************************)
(* SpecTurn: the rotation of createLShape applied to one integer point,    *)
(* up to MaxTurns times in a row, by the stem loop's and by the foot       *)
(* loop's copy of the code                                                 *)
(***************************************************************************)
\* Base points, and offsets of the rotated point from the base.
TurnBases ==
  { [x |-> 300, y |-> 300], [x |-> 1700, y |-> 1100], [x |-> 0, y |-> 0] }
TurnOffsets == {-60, 0, 7, 120}

InitTurn ==
  \E b \in TurnBases, dx \in TurnOffsets, dy \in TurnOffsets :
    LET pt == [x |-> b.x + dx, y |-> b.y + dy]
    IN /\ turning = [base |-> b, from |-> pt, at |-> pt, applied |-> << >>]
       /\ conn = [c \in Conns |-> "open"]
       /\ sockRooms = [c \in Conns |-> {}]
       /\ rooms = EmptyMap
       /\ globalFarmObjects = EmptyMap
       /\ obstacles = EmptyMap
       /\ timers = EmptyBag
       /\ nextId = 1
       /\ last = InitEvent
       /\ out = << >>
       /\ destroyed = {}
       /\ killedSince = {}
       /\ placing = PlacingStart
       /\ roomOrder = << >>

\* The point is turned once more, to the image img.
Turned(rotation, part, img) ==
  /\ Len(turning.applied) < MaxTurns
  /\ turning' = [turning EXCEPT
                   !.at = img,
                   !.applied = Append(@, [rotation |-> rotation, part |-> part])]
  /\ UNCHANGED << conn, sockRooms, rooms, globalFarmObjects, obstacles, timers,
                  nextId, last, out, destroyed, killedSince, placing,
                  roomOrder >>

\* The rotation block of the stem loop runs on the point.
TurnStem(rotation) ==
  Turned(rotation, "stem",
         Rotate(turning.base.x, turning.base.y, rotation,
                turning.at.x, turning.at.y))

\* The rotation block of the foot loop runs on the point.
TurnFoot(rotation) ==
  Turned(rotation, "foot",
         RotateFoot(turning.base.x, turning.base.y, rotation,
                    turning.at.x, turning.at.y))

DoTurnStem == \E rotation \in 0..3 : TurnStem(rotation)

DoTurnFoot == \E rotation \in 0..3 : TurnFoot(rotation)

NextTurn == DoTurnStem \/ DoTurnFoot

SpecTurn == InitTurn /\ [][NextTurn]_vars

(***************************************************************************)
(* Properties                                                              *)
(***************************************************************************)
Notes(o) == {o[k] : k \in 1..Len(o)}

\* The program state: everything but the observation and history variables.
state == << conn, sockRooms, rooms, globalFarmObjects, obstacles, timers, nextId >>

Members(g) == IF g \in DOMAIN rooms THEN DOMAIN rooms[g] ELSE {}

\* C1: in every reachable state, every player's score in every room is an
\* integer >= 0.
ScoreNeverNegative ==
  \A g \in DOMAIN rooms : \A c \in DOMAIN rooms[g] : rooms[g][c].score \in Nat

\* A kill has just taken points from a target that had some.
ScoreAfterTheft ==
  /\ last = [ev |-> "playerHit", result |-> "kill"]
  /\ \E n \in Notes(out) : n.event = "playerKilled" /\ n.data.pointsStolen > 0

\* C2: a hit event whose shooterId equals its targetId changes no room,
\* player, collectible or pending timer and emits no notification, whoever
\* sends it and whatever the state.
SelfHitChangesNothing ==
  [][\A c \in Conns, g \in RoomIds, i \in ClientIds :
       PlayerHit(c, g, i, i, MaxScore) => UNCHANGED state /\ out' = << >>]_vars

\* A self-hit naming an alive member of a room with two members was handled.
SelfHitRejected ==
  /\ last = [ev |-> "playerHit", result |-> "self"]
  /\ \E g \in DOMAIN rooms :
       /\ Cardinality(DOMAIN rooms[g]) >= 2
       /\ \A c \in DOMAIN rooms[g] : rooms[g][c].isAlive

\* C3: in a room, a kill notification for a target is never emitted while
\* an earlier kill notification for that target has not been followed by a
\* respawn notification for it.
RespawnBetweenKills ==
  [][\A n \in Notes(out') :
       n.event = "playerKilled" => <<n.room, n.data.targetId>> \notin killedSince]_vars

\* The second kill of the same target by the same shooter: the shooter holds
\* two kill bonuses and the target never scored.
KilledAgainAfterRespawn ==
  \E n \in Notes(out) :
    /\ n.event = "playerKilled"
    /\ n.data.killerScore = 2 * KillBonus
    /\ n.data.targetScore = 0
    /\ <<n.room, n.data.targetId>> \in killedSince

\* C4: for every collectible identifier at most one consumption succeeds:
\* a farmObjectDestroyed is emitted for an identifier only if none was
\* emitted for it before, it reaches each connection at most once, and the
\* step credits the object's value to exactly one player.
OneConsumptionPerObject ==
  [][\A k \in 1..Len(out') :
       out'[k].event = "farmObjectDestroyed" =>
         LET id == out'[k].data.objectId
             g == out'[k].room
         IN /\ id \notin destroyed
            /\ \A j \in 1..Len(out') :
                 j # k => /\ out'[j].event = "farmObjectDestroyed"
                          /\ out'[j].data.objectId = id
                          /\ out'[j].to \cap out'[k].to = {}
            /\ id \in DOMAIN globalFarmObjects[g]
            /\ DOMAIN rooms'[g] = DOMAIN rooms[g]
            /\ \E p \in DOMAIN rooms[g] :
                 /\ rooms'[g][p].score =
                      rooms[g][p].score + globalFarmObjects[g][id].value
                 /\ \A q \in DOMAIN rooms[g] \ {p} :
                      rooms'[g][q].score = rooms[g][q].score]_vars

\* With two members in the room, a collectResource for an identifier that
\* was already consumed has been handled.
SecondAttemptIgnored ==
  /\ last = [ev |-> "collectResource", result |-> "gone"]
  /\ out = << >>
  /\ \E g \in DOMAIN rooms : Cardinality(DOMAIN rooms[g]) >= 2

\* C5: a valid hit with target score t and shooter score s leaves
\* stolen = floor(t/2), shooter = s + 20 + stolen, target = max(0, t - stolen)
\* and the target dead; t=100, s=0 gives 70 and 50; t=1, s=0 gives 20 and 1.
HitScores ==
  [][\A c \in Conns, g \in RoomIds, sh \in ClientIds, tg \in ClientIds :
       ( /\ sh # tg
         /\ g \in DOMAIN rooms
         /\ sh \in DOMAIN rooms[g]
         /\ tg \in DOMAIN rooms[g]
         /\ rooms[g][tg].isAlive
         /\ PlayerHitAny(c, g, sh, tg) ) =>
       LET t == rooms[g][tg].score
           s == rooms[g][sh].score
           stolen == CHOOSE n \in 0..t : 2 * n <= t /\ t < 2 * n + 2
           left == IF t - stolen > 0 THEN t - stolen ELSE 0
       IN /\ rooms'[g][sh].score = s + 20 + stolen
          /\ rooms'[g][tg].score = left
          /\ ~rooms'[g][tg].isAlive
          /\ (t = 100 /\ s = 0) =>
               rooms'[g][sh].score = 70 /\ rooms'[g][tg].score = 50
          /\ (t = 1 /\ s = 0) =>
               rooms'[g][sh].score = 20 /\ rooms'[g][tg].score = 1]_vars

\* The hit of a shooter with 0 points on a target with 100 points.
HitOnHundred ==
  \E n \in Notes(out) :
    /\ n.event = "playerKilled"
    /\ n.data.pointsStolen = 50
    /\ n.data.killerScore = 70
    /\ n.data.targetScore = 50

\* C6: after the last member of a room leaves, the room's layout is
\* discarded: the join that creates the room again replies with a collectible
\* set made only of identifiers generated by that join, and generates the
\* obstacles again.
FreshLayoutOnRecreate ==
  [][\A g \in RoomIds :
       (g \notin DOMAIN rooms /\ g \in DOMAIN rooms') =>
         /\ g \notin DOMAIN obstacles
         /\ \A n \in Notes(out') :
              (n.event = "farmObjectsUpdate" /\ n.room = g) =>
                DOMAIN n.data \subseteq nextId..(nextId' - 1)]_vars

\* C7: no room in the registry has an empty player mapping.
NoEmptyRoom == \A g \in DOMAIN rooms : DOMAIN rooms[g] # {}

\* The last member of a room has just left, and the room left with it.
LastMemberLeft ==
  /\ last = [ev |-> "disconnect", result |-> "left"]
  /\ rooms = EmptyMap
  /\ \E n \in Notes(out) : n.event = "playerLeft"

\* C8: a connection-id is a key of at most one room's player mapping.
AtMostOneRoomPerConnection ==
  \A c \in Conns : Cardinality({g \in DOMAIN rooms : c \in DOMAIN rooms[g]}) <= 1

\* The value the claim gives for each collectible type.
TypeValue(type) ==
  CASE type = "coin" -> 1
    [] type = "crystal" -> 5
    [] type = "gem" -> 10

\* C9: a successful collect by a room member adds the value of the
\* collectible's type (coin 1, crystal 5, gem 10) to that member's score,
\* removes the collectible from the room's set and changes no other player;
\* a collect for an identifier consumed before changes no state and emits
\* nothing.
CollectCreditsValue ==
  [][\A c \in Conns, g \in RoomIds :
       \A id \in ObjectIds(g) :
         (FarmObjectHit(c, g, id) \/ CollectResource(c, g, id)) =>
           IF /\ g \in DOMAIN globalFarmObjects
              /\ id \in DOMAIN globalFarmObjects[g]
              /\ c \in Members(g)
           THEN /\ rooms'[g][c].score =
                     rooms[g][c].score + TypeValue(globalFarmObjects[g][id].type)
                /\ rooms' = [rooms EXCEPT ![g][c].score = rooms'[g][c].score]
                /\ globalFarmObjects' =
                     [globalFarmObjects EXCEPT ![g] =
                        [j \in DOMAIN globalFarmObjects[g] \ {id} |->
                           globalFarmObjects[g][j]]]
           ELSE id \in destroyed => UNCHANGED state /\ out' = << >>]_vars

\* A member holds the 10 points of a gem and a farmObjectHit for an
\* identifier consumed before has been handled.
GemThenSecondCollect ==
  /\ last = [ev |-> "farmObjectHit", result |-> "gone"]
  /\ out = << >>
  /\ \E g \in DOMAIN rooms : \E c \in DOMAIN rooms[g] : rooms[g][c].score = 10

\* The 25 obstacle points the claim describes: four L formations of 3 stem
\* and 2 foot points, and five centre points.
ExpectedObstacles ==
  << <<300, 300, "stem">>, <<300, 360, "stem">>, <<300, 420, "stem">>,
     <<360, 420, "foot">>, <<420, 420, "foot">>,
     <<1700, 300, "stem">>, <<1640, 300, "stem">>, <<1580, 300, "stem">>,
     <<1580, 360, "foot">>, <<1580, 420, "foot">>,
     <<300, 1100, "stem">>, <<360, 1100, "stem">>, <<420, 1100, "stem">>,
     <<420, 1040, "foot">>, <<420, 980, "foot">>,
     <<1700, 1100, "stem">>, <<1700, 1040, "stem">>, <<1700, 980, "stem">>,
     <<1640, 980, "foot">>, <<1580, 980, "foot">>,
     <<1000, 750, "center">>, <<1000, 650, "center">>, <<1000, 850, "center">>,
     <<900, 750, "center">>, <<1100, 750, "center">> >>

Points(list) == [k \in 1..Len(list) |-> <<list[k].x, list[k].y, list[k].part>>]

ObstacleListAsClaimed(list) ==
  /\ Len(list) = 25
  /\ Points(list) = ExpectedObstacles
  /\ Cardinality({k \in 1..Len(list) : list[k].part = "stem"}) = 12
  /\ Cardinality({k \in 1..Len(list) : list[k].part = "foot"}) = 8
  /\ Cardinality({k \in 1..Len(list) : list[k].part = "center"}) = 5
  /\ Cardinality({list[k].id : k \in 1..Len(list)}) = 25

\* C10: every join replies with the same fixed list of 25 obstacle points
\* (four L formations of 3 stem + 2 foot points, five centre points); the
\* list of a room is generated once and never changes, and it is the same
\* for every room identifier.
ObstacleListFixed ==
  /\ [](/\ \A g \in DOMAIN obstacles : ObstacleListAsClaimed(obstacles[g])
        /\ \A g \in DOMAIN obstacles, h \in DOMAIN obstacles :
             obstacles[g] = obstacles[h]
        /\ last.ev = "joinGame" =>
             \E n \in Notes(out) :
               /\ n.event = "obstaclesUpdate"
               /\ n.room \in DOMAIN obstacles
               /\ n.data = obstacles[n.room]
               /\ ObstacleListAsClaimed(n.data))
  /\ [][\A g \in DOMAIN obstacles :
          g \in DOMAIN obstacles' /\ obstacles'[g] = obstacles[g]]_vars

\* A connection has just joined an existing room while two rooms have their
\* obstacle lists.
JoinedSecondRoom ==
  /\ last = [ev |-> "joinGame", result |-> "joined"]
  /\ Cardinality(DOMAIN obstacles) = 2
  /\ \E n \in Notes(out) : n.event = "obstaclesUpdate"

\* C11: a join by a connection that is already a member of the room leaves
\* that player's stored score, position, velocity, alive flag, name and color
\* unchanged, whatever the state of the player and the payload of the join.
RejoinKeepsPlayer ==
  [][\A c \in Conns, g \in RoomIds, pr \in JoinProfiles, seed \in Seeds :
       (c \in Members(g) /\ JoinGame(c, g, pr.name, pr.color, seed)) =>
         /\ rooms'[g][c].score = rooms[g][c].score
         /\ rooms'[g][c].position = rooms[g][c].position
         /\ rooms'[g][c].velocity = rooms[g][c].velocity
         /\ rooms'[g][c].isAlive = rooms[g][c].isAlive
         /\ rooms'[g][c].name = rooms[g][c].name
         /\ rooms'[g][c].color = rooms[g][c].color
         /\ rooms' = rooms]_vars

\* A member that is dead, holds points and has moved has just joined again
\* under another name and color.
RejoinedDeadWithScore ==
  /\ last = [ev |-> "joinGame", result |-> "rejoined"]
  /\ \E n \in Notes(out) :
       /\ n.event = "playerJoined"
       /\ n.room \in DOMAIN rooms
       /\ n.data.playerId \in DOMAIN rooms[n.room]
       /\ LET player == rooms[n.room][n.data.playerId]
          IN /\ ~player.isAlive
             /\ player.score > 0
             /\ player.velocity # ZeroVelocity
             /\ player.name # n.data.name
             /\ player.color # n.data.color

\* C12: a hit event changes no score, alive flag or timer and emits no
\* notification when the room does not exist, when the shooter or the target
\* is not a member of it, or when the target is already dead; so the reports
\* of one kill that follow the first one, whoever sends them, add no theft
\* and no bonus.
InvalidHitChangesNothing ==
  [][\A c \in Conns, g \in RoomIds, sh \in ClientIds, tg \in ClientIds :
       ( /\ PlayerHitAny(c, g, sh, tg)
         /\ \/ g \notin DOMAIN rooms
            \/ sh \notin Members(g)
            \/ tg \notin Members(g)
            \/ ~rooms[g][tg].isAlive
            \/ <<g, tg>> \in killedSince ) =>
       UNCHANGED state /\ out' = << >>]_vars

\* A hit on a dead target has been handled: the shooter holds the bonus of
\* one kill and one respawn is pending.
SecondReportIgnored ==
  /\ last = [ev |-> "playerHit", result |-> "dead"]
  /\ out = << >>
  /\ BagCardinality(timers) = 1
  /\ \E g \in DOMAIN rooms : \E sh \in DOMAIN rooms[g], tg \in DOMAIN rooms[g] :
       /\ rooms[g][sh].score = KillBonus
       /\ ~rooms[g][tg].isAlive
       /\ rooms[g][tg].score = 0

\* C13: a move sent by a connection that is not a member of the room it
\* names (or naming an unknown room) changes no state and delivers no
\* notification to any other connection.
NonMemberMoveSilent ==
  [][\A c \in Conns, g \in RoomIds, p \in MovePositions, v \in MoveVelocities :
       (c \notin Members(g) /\ PlayerMove(c, g, p, v)) =>
         /\ UNCHANGED state
         /\ \A n \in Notes(out') : n.to \subseteq {c}]_vars

\* C14: a repopulation timer that fires for a room that is no longer in the
\* registry creates no collectible, changes no stored state and emits no
\* notification.
RefillOfVanishedRoomIsNoOp ==
  [][\A tm \in PendingTimers, seed \in Seeds :
       (tm.kind = "farm" /\ tm.gameId \notin DOMAIN rooms
          /\ FarmTimerFires(tm, seed)) =>
         /\ UNCHANGED << conn, sockRooms, rooms, globalFarmObjects, obstacles,
                         nextId >>
         /\ out' = << >>]_vars

\* C15: when a respawn timer fires and the target is still a member of the
\* room, the target becomes alive with zero velocity and a position inside
\* the map interior, its score is unchanged and one respawn notification is
\* emitted (no connection receives two); when the target or the room no
\* longer exists, nothing changes and nothing is emitted.
RespawnTimerEffect ==
  [][\A tm \in PendingTimers, p \in RespawnPoints :
       (tm.kind = "respawn" /\ RespawnFires(tm, p)) =>
         LET g == tm.gameId
             t == tm.targetId
         IN IF t \in Members(g)
            THEN /\ rooms'[g][t].isAlive
                 /\ rooms'[g][t].velocity = [x |-> 0, y |-> 0]
                 /\ rooms'[g][t].position.x \in 100..1900
                 /\ rooms'[g][t].position.y \in 100..1400
                 /\ rooms'[g][t].score = rooms[g][t].score
                 /\ \A q \in Members(g) \ {t} : rooms'[g][q] = rooms[g][q]
                 /\ out' # << >>
                 /\ \A k \in 1..Len(out') :
                      /\ out'[k].event = "playerRespawned"
                      /\ out'[k].data.playerId = t
                      /\ out'[k].data.position = rooms'[g][t].position
                      /\ \A j \in 1..Len(out') :
                           j # k => out'[j].to \cap out'[k].to = {}
            ELSE /\ UNCHANGED << conn, sockRooms, rooms, globalFarmObjects,
                                 obstacles, nextId >>
                 /\ out' = << >>]_vars

\* A target that holds points has respawned and the notification reached a
\* connection: it is alive again, at rest, with the points the kill left.
RespawnedAfterMove ==
  /\ last = [ev |-> "respawnTimer", result |-> "respawned"]
  /\ \E n \in Notes(out) :
       /\ n.event = "playerRespawned"
       /\ n.to # {}
       /\ rooms[n.room][n.data.playerId].isAlive
       /\ rooms[n.room][n.data.playerId].score > 0
       /\ rooms[n.room][n.data.playerId].velocity = ZeroVelocity
       /\ rooms[n.room][n.data.playerId].respawnTime # NoTime

\* A respawn timer has fired after its target left the room.
RespawnOfDepartedTarget ==
  last = [ev |-> "respawnTimer", result |-> "gone"]

\* C16: placing one collectible makes at most a bounded number of sampling
\* attempts and then falls back to relaxed placement: once MaxTries draws
\* have failed, the next step of the loop places the object.
PlacementFallsBack ==
  [][(placing.attempts >= MaxTries /\ ~placing.validPosition
        /\ placing' # placing) =>
       \/ placing'.validPosition
       \/ Cardinality(DOMAIN globalFarmObjects'[HitRoom])
            > Cardinality(DOMAIN globalFarmObjects[HitRoom])]_vars

\* The connections that the step delivers a notification equal to n to.
DeliveredTo(n) ==
  UNION {m.to : m \in {k \in Notes(out') : /\ k.event = n.event
                                           /\ k.room = n.room
                                           /\ k.data = n.data}}

\* The notifications of a step that are a kill, a respawn, an object
\* destroyed or the population refresh of a step that created collectibles.
RoomWide(n) ==
  \/ n.event \in {"playerKilled", "playerRespawned", "farmObjectDestroyed"}
  \/ n.event = "farmObjectsUpdate" /\ nextId' > nextId

\* C17: each kill, respawn, object-destroyed and population-refresh
\* notification (the farmObjectsUpdate of a step that created collectibles)
\* is delivered to every connection that is a member of the room when it is
\* emitted (so to the member that originated the event too), also when a
\* timer emits it after its originating connection has disconnected.
AllMembersNotified ==
  [][\A n \in Notes(out') :
       RoomWide(n) =>
         /\ n.room \in DOMAIN rooms'
         /\ DOMAIN rooms'[n.room] \subseteq DeliveredTo(n)]_vars

\* A respawn timer has fired after its originating connection disconnected:
\* the notification is delivered to the members of the room and not to the
\* originator.
RespawnNotifiedAfterOriginatorLeft ==
  /\ last = [ev |-> "respawnTimer", result |-> "respawned"]
  /\ Len(out) = 2
  /\ out[1].event = "playerRespawned"
  /\ out[1].to = DOMAIN rooms[out[1].room]
  /\ out[2].to = {}

\* C18: once an object-destroyed notification has been produced for a
\* collectible identifier, the identifier appears in no later notification
\* of the room: in no collectible population snapshot, in no join reply and
\* in no other object-destroyed notification.
DestroyedIdNeverReappears ==
  [][\A n \in Notes(out') :
       /\ n.event = "farmObjectsUpdate" => DOMAIN n.data \cap destroyed = {}
       /\ n.event = "farmObjectDestroyed" => n.data.objectId \notin destroyed]_vars

\* After a collectible was destroyed and the room refilled, a join has
\* replied with the collectible set of the room.
JoinReplyAfterRefill ==
  /\ last.ev = "joinGame"
  /\ destroyed # {}
  /\ \E n \in Notes(out) :
       /\ n.event = "farmObjectsUpdate"
       /\ Cardinality(DOMAIN n.data) = FarmCount
       /\ DOMAIN n.data \cap destroyed = {}

\* C19: a join by a connection that is not yet a member creates the room if
\* absent, inserts exactly one player for that connection, with its name and
\* color, position (400,300), zero velocity, score 0 and alive, leaves the
\* records of the other members unchanged, and replies to the joiner with
\* the full player list (the joiner included), the room's obstacle list and
\* the room's current collectible set.
FirstJoinInsertsDefaults ==
  [][\A c \in Conns, g \in RoomIds, pr \in JoinProfiles, seed \in Seeds :
       (c \notin Members(g) /\ JoinGame(c, g, pr.name, pr.color, seed)) =>
         /\ g \in DOMAIN rooms'
         /\ DOMAIN rooms' = DOMAIN rooms \cup {g}
         /\ DOMAIN rooms'[g] = Members(g) \cup {c}
         /\ rooms'[g][c].id = c
         /\ rooms'[g][c].name = pr.name
         /\ rooms'[g][c].color = pr.color
         /\ rooms'[g][c].position = [x |-> 400, y |-> 300]
         /\ rooms'[g][c].velocity = [x |-> 0, y |-> 0]
         /\ rooms'[g][c].score = 0
         /\ rooms'[g][c].isAlive
         /\ \A q \in Members(g) : rooms'[g][q] = rooms[g][q]
         /\ \A h \in DOMAIN rooms \ {g} : rooms'[h] = rooms[h]
         /\ \E n \in Notes(out') :
              n.event = "currentPlayers" /\ n.to = {c} /\ n.data = rooms'[g]
         /\ \E n \in Notes(out') :
              n.event = "obstaclesUpdate" /\ n.to = {c} /\ n.data = obstacles'[g]
         /\ \E n \in Notes(out') :
              /\ n.event = "farmObjectsUpdate"
              /\ n.to = {c}
              /\ n.data = globalFarmObjects'[g]]_vars

\* A connection has joined a room whose other member has moved: the reply
\* lists both players, the joiner with its default record.
JoinedBesideMovedMember ==
  /\ last = [ev |-> "joinGame", result |-> "joined"]
  /\ \E n \in Notes(out) :
       /\ n.event = "currentPlayers"
       /\ Cardinality(DOMAIN n.data) = 2
       /\ \E q \in DOMAIN n.data :
            /\ n.data[q].velocity # ZeroVelocity
            /\ n.data[q].position # SpawnPosition
       /\ \E c \in n.to : n.data[c] = rooms[n.room][c] /\ n.data[c].score = 0

\* C20: a move by a room member overwrites only that member's stored
\* position, and its stored velocity only when the event supplies one (an
\* absent velocity leaves the stored velocity as it is); score, alive flag,
\* every other player and every collectible are unchanged, and the mover
\* receives no echo.
MoveFrame ==
  [][\A c \in Conns, g \in RoomIds, p \in MovePositions, v \in MoveVelocities :
       (c \in Members(g) /\ PlayerMove(c, g, p, v)) =>
         /\ rooms'[g][c].position = p
         /\ rooms'[g][c].velocity =
              (IF v = {} THEN rooms[g][c].velocity ELSE CHOOSE w \in v : TRUE)
         /\ rooms'[g][c].score = rooms[g][c].score
         /\ rooms'[g][c].isAlive = rooms[g][c].isAlive
         /\ rooms'[g][c].name = rooms[g][c].name
         /\ rooms'[g][c].color = rooms[g][c].color
         /\ DOMAIN rooms' = DOMAIN rooms
         /\ DOMAIN rooms'[g] = DOMAIN rooms[g]
         /\ \A q \in Members(g) \ {c} : rooms'[g][q] = rooms[g][q]
         /\ \A h \in DOMAIN rooms \ {g} : rooms'[h] = rooms[h]
         /\ UNCHANGED << globalFarmObjects, obstacles, timers, nextId >>
         /\ \A n \in Notes(out') : c \notin n.to]_vars

\* A member that was moving has sent a move without velocity, which reached
\* the other member: its stored velocity is still the one it had.
MovedWithoutVelocity ==
  /\ last = [ev |-> "playerMove", result |-> "moved"]
  /\ \E n \in Notes(out) :
       /\ n.event = "playerMoved"
       /\ n.data.velocity = {}
       /\ n.to # {}
       /\ rooms[n.room][n.data.playerId].velocity # ZeroVelocity

\* C21: a shoot event changes no player, collectible, obstacle, room or
\* timer, in any state; its only effect is one projectile-spawned
\* notification, delivered to the other connections of the named room.
ShootIsPureRelay ==
  [][\A c \in Conns, g \in RoomIds :
       PlayerShoot(c, g) =>
         /\ UNCHANGED state
         /\ Len(out') = 1
         /\ out'[1].event = "playerShot"
         /\ out'[1].room = g
         /\ out'[1].data.playerId = c
         /\ out'[1].to = Members(g) \ {c}]_vars

\* A shot of a member has been relayed to the other member of its room
\* while a respawn is pending.
ShotRelayedToOtherMember ==
  /\ last = [ev |-> "playerShoot", result |-> "relayed"]
  /\ \E n \in Notes(out) :
       /\ n.event = "playerShot"
       /\ n.to # {}
       /\ n.data.playerId \in DOMAIN rooms[n.room]
  /\ timers # EmptyBag

\* C22: farmObjectHit with objectId and collectResource with resourceId are
\* equivalent: in every reachable state, for the same connection, room and
\* collectible identifier, they give the same outcome, the same next
\* registries, the same notifications and the same pending timers.
CollectEquivalence ==
  \A c \in Conns, g \in RoomIds :
    \A id \in ObjectIds(g) : ConsumeEffect(c, g, id) = CollectEffect(c, g, id)

\* A collectResource has consumed an object: its player holds the points,
\* the notification went out and the repopulation timer is pending, while
\* other objects can still be consumed either way.
CollectedByTouch ==
  /\ last = [ev |-> "collectResource", result |-> "collected"]
  /\ \E n \in Notes(out) :
       /\ n.event = "farmObjectDestroyed"
       /\ rooms[n.room][n.data.playerId].score = n.data.playerScore
       /\ n.data.playerScore > 0
       /\ FarmTimer(n.data.playerId, n.room) \in PendingTimers
       /\ DOMAIN globalFarmObjects[n.room] # {}

\* C23: in every reachable state a player record carries a respawn deadline
\* if and only if the player is dead.
RespawnDeadlineIffDead ==
  \A g \in DOMAIN rooms : \A c \in DOMAIN rooms[g] :
    (rooms[g][c].respawnTime # NoTime) <=> ~rooms[g][c].isAlive

\* C24: every player that is killed and stays connected eventually becomes
\* alive again, given that pending timers eventually fire: no player stays
\* dead forever while a member of its room, whatever events interleave,
\* the disconnect of the connection that reported the hit included.
KilledEventuallyAlive ==
  \A c \in Conns, g \in RoomIds :
    (c \in Members(g) /\ ~rooms[g][c].isAlive)
      ~> (c \notin Members(g) \/ rooms[g][c].isAlive)

\* A killed player is alive again, in its room, after the connection that
\* reported the hit has disconnected.
RespawnedAfterReporterLeft ==
  /\ last = [ev |-> "respawnTimer", result |-> "respawned"]
  /\ \E c \in Conns : conn[c] = "closed"
  /\ \E n \in Notes(out) :
       /\ n.event = "playerRespawned"
       /\ conn[n.data.playerId] = "open"
       /\ rooms[n.room][n.data.playerId].isAlive
       /\ rooms[n.room][n.data.playerId].respawnTime # NoTime

\* The number of collectibles of room g in a collectible registry.
Count(gfo, g) == IF g \in DOMAIN gfo THEN Cardinality(DOMAIN gfo[g]) ELSE 0

\* C25: a room's collectible count never exceeds the target of 10, also
\* with several repopulation timers pending and joins interleaved; each
\* step that creates collectibles in a room found fewer than 10 there,
\* creates exactly 10 minus that count and leaves exactly 10.
CountAtMostTarget ==
  /\ [](\A g \in DOMAIN globalFarmObjects : Count(globalFarmObjects, g) <= 10)
  /\ [][\A g \in DOMAIN globalFarmObjects' :
          LET before == IF g \in DOMAIN globalFarmObjects
                        THEN DOMAIN globalFarmObjects[g] ELSE {}
              created == DOMAIN globalFarmObjects'[g] \ before
          IN created # {} =>
               /\ Cardinality(before) < 10
               /\ Cardinality(created) = 10 - Cardinality(before)
               /\ before \subseteq DOMAIN globalFarmObjects'[g]
               /\ Count(globalFarmObjects', g) = 10]_vars

\* A repopulation timer has refilled a room in which three collectibles
\* were consumed, while other repopulation timers are still pending.
RefilledWithTimersPending ==
  /\ last = [ev |-> "farmTimer", result |-> "refilled"]
  /\ Cardinality(destroyed) = 3
  /\ BagCardinality(timers) >= 2
  /\ \A g \in DOMAIN rooms : Count(globalFarmObjects, g) = 10

\* C26: after every successful consumption the room's collectible count
\* eventually returns to the target of 10, given that pending timers
\* eventually fire, whatever collects, joins and disconnects interleave.
RefillAfterConsumption ==
  \A g \in RoomIds :
    (last.result = "collected" /\ \E n \in Notes(out) : n.room = g)
      ~> (Count(globalFarmObjects, g) = 10)

\* Two collectibles were consumed, every repopulation timer has fired and
\* the room, still with a member, is back at 10 collectibles.
RefilledAndTimersDone ==
  /\ last = [ev |-> "farmTimer", result |-> "full"]
  /\ timers = EmptyBag
  /\ Cardinality(destroyed) = 2
  /\ \E g \in DOMAIN rooms : Count(globalFarmObjects, g) = 10

\* Room g is in a cooldown: a consumption has left it short of the target
\* and the repopulation timer that consumption scheduled is still pending.
CoolingDown(g) ==
  /\ Count(globalFarmObjects, g) < 10
  /\ \E c \in Conns : BagIn(FarmTimer(c, g), timers)

\* C27: supply never refills instantly: while a room is in the cooldown
\* that follows a successful consumption, the only step that creates a
\* collectible in that room is the firing of a repopulation timer; no
\* consume handler and no other inbound event refills it.
NoRefillBeforeTimer ==
  [][\A g \in RoomIds :
       LET before == IF g \in DOMAIN globalFarmObjects
                     THEN DOMAIN globalFarmObjects[g] ELSE {}
           after == IF g \in DOMAIN globalFarmObjects'
                    THEN DOMAIN globalFarmObjects'[g] ELSE {}
       IN (CoolingDown(g) /\ after \ before # {}) => last'.ev = "farmTimer"]_vars

\* C28: supply is never fully exhausted: every room of the registry holds
\* at least one collectible in every reachable state, however many collect
\* events arrive within one cooldown.
SupplyNeverExhausted ==
  \A g \in DOMAIN rooms : Count(globalFarmObjects, g) >= 1

\* C29: every collectible of every room lies within the map interior
\* (x in [100,1900], y in [100,1400]) and strictly farther than 120 from
\* every obstacle of its room, in every reachable state, collectibles
\* created by a repopulation timer included.
CollectiblesClearOfObstacles ==
  \A g \in DOMAIN globalFarmObjects :
    \A id \in DOMAIN globalFarmObjects[g] :
      LET p == globalFarmObjects[g][id].position
      IN /\ p.x >= 100 /\ p.x <= 1900
         /\ p.y >= 100 /\ p.y <= 1400
         /\ g \in DOMAIN obstacles
         /\ \A k \in 1..Len(obstacles[g]) :
              (p.x - obstacles[g][k].x) * (p.x - obstacles[g][k].x)
                + (p.y - obstacles[g][k].y) * (p.y - obstacles[g][k].y)
                > 120 * 120

\* A repopulation timer has just created a collectible in a room with
\* obstacles, and one of the points the sampling loop can draw lies within
\* 120 of an obstacle of that room.
TimerPlacedCollectible ==
  /\ last.ev = "farmTimer"
  /\ last.result \in {"refilled", "refilledNoRoom"}
  /\ \E g \in DOMAIN globalFarmObjects :
       /\ nextId - 1 \in DOMAIN globalFarmObjects[g]
       /\ g \in DOMAIN obstacles
       /\ \E j \in 1..Len(SamplePoints), k \in 1..Len(obstacles[g]) :
            (SamplePoints[j].x - obstacles[g][k].x) * (SamplePoints[j].x - obstacles[g][k].x)
              + (SamplePoints[j].y - obstacles[g][k].y) * (SamplePoints[j].y - obstacles[g][k].y)
              <= 120 * 120

\* The rotations applied so far to the point, in order.
Rotations == [k \in 1..Len(turning.applied) |-> turning.applied[k].rotation]

\* The image of the offset (tx, ty) from base b under a rotation, as the
\* spec states it: 1 is 90 degrees, 2 is 180 degrees, 3 is 270 degrees.
Stated(b, rotation, tx, ty) ==
  CASE rotation = 1 -> <<b.x - ty, b.y + tx>>
    [] rotation = 2 -> <<b.x - tx, b.y - ty>>
    [] rotation = 3 -> <<b.x + ty, b.y - tx>>
    [] OTHER -> <<b.x + tx, b.y + ty>>

\* The 5-point template of an L formation, as offsets from the base: three
\* stem points and two foot points.
Template ==
  << <<0, 0, "stem">>, <<0, 60, "stem">>, <<0, 120, "stem">>,
     <<60, 120, "foot">>, <<120, 120, "foot">> >>

\* The formation the spec describes for base b and a rotation.
StatedFormation(b, rotation) ==
  [k \in 1..Len(Template) |->
     LET q == Stated(b, rotation, Template[k][1], Template[k][2])
     IN <<q[1], q[2], Template[k][3]>>]

\* C30: the rotations follow the stated formulas about the base point: 90
\* degrees maps (x,y) to (bx-(y-by), by+(x-bx)), 180 degrees mirrors both
\* axes, 270 degrees undoes 90 degrees; so 90 then 270 (and 270 then 90) is
\* the identity, 90 twice equals 180, the stem's and the foot's code turn
\* every point alike, and the four formations are the rotations of one
\* 5-point template.
RotationsAsStated ==
  LET b == turning.base
      x == turning.from.x
      y == turning.from.y
      at == <<turning.at.x, turning.at.y>>
  IN /\ Rotations = <<1>> => at = <<b.x - (y - b.y), b.y + (x - b.x)>>
     /\ Rotations = <<2>> => at = <<b.x - (x - b.x), b.y - (y - b.y)>>
     /\ Rotations \in {<<1, 3>>, <<3, 1>>} => at = <<x, y>>
     /\ Rotations = <<1, 1>> => at = <<b.x - (x - b.x), b.y - (y - b.y)>>
     /\ Rotations \in {<< >>, <<0>>, <<0, 0>>} => at = <<x, y>>
     /\ \A rotation \in 0..3 :
          /\ Rotate(b.x, b.y, rotation, turning.at.x, turning.at.y)
               = RotateFoot(b.x, b.y, rotation, turning.at.x, turning.at.y)
          /\ Points(createLShape(b.x, b.y, rotation)) = StatedFormation(b, rotation)
     /\ Points(SubSeq(NewRoomObstacles, 1, 20))
          = StatedFormation([x |-> 300, y |-> 300], 0)
              \o StatedFormation([x |-> 1700, y |-> 300], 1)
              \o StatedFormation([x |-> 300, y |-> 1100], 3)
              \o StatedFormation([x |-> 1700, y |-> 1100], 2)

\* A point off both axes of its base was turned 90 degrees by the stem's
\* code and then 270 degrees by the foot's code, and is back where it was.
TurnedThereAndBack ==
  /\ turning.applied = << [rotation |-> 1, part |-> "stem"],
                          [rotation |-> 3, part |-> "foot"] >>
  /\ turning.from.x # turning.base.x
  /\ turning.from.y # turning.base.y
  /\ turning.at = turning.from

\* C31: after a disconnect of connection c, c is a key of no room's player
\* mapping (it is removed from every room it was in), every room it leaves
\* empty is removed from the registry, every other room stays, and the
\* records of all other players are unchanged.
DisconnectLeavesEveryRoom ==
  [][\A c \in Conns :
       (conn[c] = "open" /\ conn'[c] = "closed") =>
         /\ \A g \in DOMAIN rooms' : c \notin DOMAIN rooms'[g]
         /\ DOMAIN rooms' = {g \in DOMAIN rooms : DOMAIN rooms[g] \ {c} # {}}
         /\ \A g \in DOMAIN rooms' :
              /\ DOMAIN rooms'[g] = DOMAIN rooms[g] \ {c}
              /\ \A p \in DOMAIN rooms'[g] : rooms'[g][p] = rooms[g][p]]_vars

\* A connection that was a member of two rooms has disconnected: the room
\* it shared with another player remains, the room it was alone in is gone.
LeftTwoRooms ==
  /\ last = [ev |-> "disconnect", result |-> "left"]
  /\ Len(out) = 2
  /\ Cardinality(DOMAIN rooms) = 1
  /\ \E c \in Conns : conn[c] = "closed"
  /\ \E g \in DOMAIN rooms, p \in Conns : p \in DOMAIN rooms[g] /\ conn[p] = "open"

\* The step is an event tagged with room R: a move, a hit, a collect of
\* either kind, or a timer that a hit or a collect in R has scheduled.
TaggedWith(R) ==
  \/ /\ last'.ev = "playerMove"
     /\ \E c \in Conns, p \in MovePositions, v \in MoveVelocities :
          PlayerMove(c, R, p, v)
  \/ /\ last'.ev = "playerHit"
     /\ \E c \in Conns, s \in ClientIds, t \in ClientIds : PlayerHitAny(c, R, s, t)
  \/ /\ last'.ev = "farmObjectHit"
     /\ \E c \in Conns : \E id \in IslesObjectIds :
          FarmObjectHitWithin(c, R, id, MaxIslesCollects, MaxIslesScore)
  \/ /\ last'.ev = "collectResource"
     /\ \E c \in Conns : \E id \in IslesObjectIds :
          CollectResourceWithin(c, R, id, MaxIslesCollects, MaxIslesScore)
  \/ /\ last'.ev = "respawnTimer"
     /\ \E tm \in PendingTimers, p \in RespawnPoints :
          tm.gameId = R /\ RespawnFires(tm, p)
  \/ /\ last'.ev = "farmTimer"
     /\ \E tm \in PendingTimers, seed \in Seeds :
          tm.gameId = R /\ FarmTimerFires(tm, seed)

\* The player records and the collectibles of room g in the registries.
RoomContent(rms, gfo, g) ==
  << IF g \in DOMAIN rms THEN {rms[g]} ELSE {},
     IF g \in DOMAIN gfo THEN {gfo[g]} ELSE {} >>

\* C32: rooms are isolated: a move, hit, collect, respawn-timer or
\* repopulation-timer event tagged with room R changes no player record and
\* no collectible of any other room, also when the connection is a member
\* of another room too or the collectible named belongs to another room.
RoomsIsolated ==
  [][\A R \in ArenaRooms :
       TaggedWith(R) =>
         \A g \in ArenaRooms \ {R} :
           RoomContent(rooms', globalFarmObjects', g)
             = RoomContent(rooms, globalFarmObjects, g)]_vars

\* A connection that is a member of two rooms has moved in one of them, and
\* its record in the other room is still at the spawn position.
MovedInOneRoomOnly ==
  /\ last = [ev |-> "playerMove", result |-> "moved"]
  /\ \E c \in Conns, g \in DOMAIN rooms, h \in DOMAIN rooms :
       /\ g # h
       /\ c \in DOMAIN rooms[g] /\ c \in DOMAIN rooms[h]
       /\ rooms[g][c].position \in MovePositions
       /\ rooms[h][c].position = SpawnPosition

\* The sum of the scores of a player mapping.
RECURSIVE ScoreSum(_)
ScoreSum(players) ==
  IF DOMAIN players = {} THEN 0
  ELSE LET p == CHOOSE q \in DOMAIN players : TRUE
       IN players[p].score + ScoreSum([q \in DOMAIN players \ {p} |-> players[q]])

\* C33: every successful hit increases the sum of all scores in the room by
\* exactly 20: the points removed from the target are the stolen points
\* added to the shooter on top of the 20, and no other player's score
\* changes.
KillAddsTwenty ==
  [][(last'.ev = "playerHit" /\ last'.result = "kill") =>
       \E g \in DOMAIN rooms :
         /\ DOMAIN rooms' = DOMAIN rooms
         /\ DOMAIN rooms'[g] = DOMAIN rooms[g]
         /\ ScoreSum(rooms'[g]) = ScoreSum(rooms[g]) + 20
         /\ \E sh \in DOMAIN rooms[g], tg \in DOMAIN rooms[g] :
              /\ sh # tg
              /\ \E k \in 0..rooms[g][tg].score :
                   /\ rooms'[g][tg].score = rooms[g][tg].score - k
                   /\ rooms'[g][sh].score = rooms[g][sh].score + 20 + k
              /\ \A p \in DOMAIN rooms[g] \ {sh, tg} :
                   rooms'[g][p].score = rooms[g][p].score]_vars

\* A kill in a room of three has taken points from a target that had an
\* odd score; the third member still has the score it started with.
KilledBesideBystander ==
  /\ last = [ev |-> "playerHit", result |-> "kill"]
  /\ \E g \in DOMAIN rooms :
       /\ Cardinality(DOMAIN rooms[g]) = 3
       /\ \E n \in Notes(out) :
            /\ n.event = "playerKilled"
            /\ n.data.pointsStolen = 1
            /\ n.data.targetScore = 2
            /\ \E p \in DOMAIN rooms[g] \ {n.data.killerId, n.data.targetId} :
                 rooms[g][p].score = 1

\* The number of respawn timers for player p of room g in the bag tms,
\* whatever socket has scheduled them.
RespawnsIn(tms, g, p) ==
  LET due == {tm \in BagToSet(tms) :
                tm.kind = "respawn" /\ tm.gameId = g /\ tm.targetId = p}
      RECURSIVE Copies(_)
      Copies(set) ==
        IF set = {} THEN 0
        ELSE LET tm == CHOOSE x \in set : TRUE
             IN CopiesIn(tm, tms) + Copies(set \ {tm})
  IN Copies(due)

RespawnsPending(g, p) == RespawnsIn(timers, g, p)

\* C34: at any time at most one respawn timer is pending per room and
\* player, a player present in a room is dead exactly when a respawn timer
\* for it in that room is pending, and the alive flag changes from false
\* to true only when a respawn timer fires.
DeadIffRespawnPending ==
  /\ [](\A g \in RoomIds, p \in ClientIds :
          /\ RespawnsPending(g, p) <= 1
          /\ (g \in DOMAIN rooms /\ p \in DOMAIN rooms[g]) =>
               (~rooms[g][p].isAlive <=> RespawnsPending(g, p) = 1))
  /\ [][\A g \in DOMAIN rooms : \A p \in DOMAIN rooms[g] :
          (/\ ~rooms[g][p].isAlive
           /\ g \in DOMAIN rooms'
           /\ p \in DOMAIN rooms'[g]
           /\ rooms'[g][p].isAlive) => last'.ev = "respawnTimer"]_vars

\* A player that was killed, respawned and was killed again is dead, with
\* one respawn timer pending for it.
KilledAgainOneTimer ==
  /\ last = [ev |-> "playerHit", result |-> "kill"]
  /\ \E g \in DOMAIN rooms, p \in Conns, q \in Conns :
       /\ p \in DOMAIN rooms[g] /\ q \in DOMAIN rooms[g]
       /\ ~rooms[g][p].isAlive
       /\ rooms[g][q].score >= 2 * KillBonus
       /\ RespawnsPending(g, p) = 1
       /\ BagCardinality(timers) = 1

\* C35: a collect event of either kind sent by a connection that is not a
\* member of the named room leaves the collectible it names in the room's
\* set, credits nobody, emits no notification and schedules no
\* repopulation timer.
OutsiderCollectsNothing ==
  [][\A c \in Conns, g \in ArenaRooms :
       (/\ last'.ev \in {"farmObjectHit", "collectResource"}
        /\ ~(g \in DOMAIN rooms /\ c \in DOMAIN rooms[g])
        /\ \E id \in IslesObjectIds :
             \/ FarmObjectHitWithin(c, g, id, MaxIslesCollects, MaxIslesScore)
             \/ CollectResourceWithin(c, g, id, MaxIslesCollects, MaxIslesScore))
       => /\ globalFarmObjects' = globalFarmObjects
          /\ rooms' = rooms
          /\ out' = << >>
          /\ timers' = timers
          /\ destroyed' = destroyed]_vars

\* A connection that is not a member of a room has named one of the room's
\* collectibles in a collect event: the room still has its 10 collectibles,
\* nobody has scored and no timer is pending.
OutsiderTriedToCollect ==
  /\ last.ev \in {"farmObjectHit", "collectResource"}
  /\ last.result = "notMember"
  /\ out = << >>
  /\ timers = EmptyBag
  /\ destroyed = {}
  /\ \E g \in DOMAIN rooms :
       /\ Count(globalFarmObjects, g) = 10
       /\ \E c \in Conns : conn[c] = "open" /\ c \notin DOMAIN rooms[g]
       /\ \A p \in DOMAIN rooms[g] : rooms[g][p].score = 0

\* What a hit event sent by connection c leaves of the state: the player
\* records and, for every room and player, the number of pending respawn
\* timers.
HitOutcome(c, g, sh, tg) ==
  LET e == HitEffect(c, g, sh, tg)
  IN [rooms |-> e.rooms,
      timers |-> [h \in RoomIds, p \in Trio |-> RespawnsIn(e.timers, h, p)],
      total |-> BagCardinality(e.timers)]

\* C36: the state change caused by a hit event is a function of the room,
\* the shooterId, the targetId and the room state only: whichever
\* connection sends the event (the shooter, the target, a bystander or a
\* connection that is not a member of the room), the player scores, the
\* alive flags and the pending timers it leaves are the same.
HitIgnoresSender ==
  \A g \in RoomIds, sh \in Trio, tg \in Trio :
    \A c \in Trio, d \in Trio :
      (conn[c] = "open" /\ conn[d] = "open") =>
        HitOutcome(c, g, sh, tg) = HitOutcome(d, g, sh, tg)

\* A kill reported by a connection that is not a member of the room: it is
\* neither the killer nor the target, and the room has two players.
KillReportedByOutsider ==
  /\ last = [ev |-> "playerHit", result |-> "kill"]
  /\ \E g \in DOMAIN rooms, tm \in BagToSet(timers) :
       /\ Cardinality(DOMAIN rooms[g]) = 2
       /\ tm.kind = "respawn" /\ tm.gameId = g
       /\ tm.socket \notin DOMAIN rooms[g]
       /\ ~rooms[g][tm.targetId].isAlive

\* C37: every notification that carries a player's score, position or alive
\* flag (arrival, player snapshot, kill, object-destroyed, respawn) and
\* reaches somebody reports the values the server stores for that player
\* when it is emitted, the arrival notification of a member that joins
\* again included.
NotesReportStoredValues ==
  \A n \in Notes(out) :
    (n.to # {} /\ n.room \in DOMAIN rooms) =>
      LET players == rooms[n.room]
      IN /\ (n.event = "playerJoined" /\ n.data.playerId \in DOMAIN players) =>
              /\ n.data.score = players[n.data.playerId].score
              /\ n.data.position = players[n.data.playerId].position
              /\ n.data.isAlive = players[n.data.playerId].isAlive
         /\ n.event = "currentPlayers" => n.data = players
         /\ (n.event = "playerKilled" /\ n.data.killerId \in DOMAIN players
               /\ n.data.targetId \in DOMAIN players) =>
              /\ n.data.killerScore = players[n.data.killerId].score
              /\ n.data.targetScore = players[n.data.targetId].score
         /\ (n.event = "farmObjectDestroyed" /\ n.data.playerId \in DOMAIN players) =>
              n.data.playerScore = players[n.data.playerId].score
         /\ (n.event = "playerRespawned" /\ n.data.playerId \in DOMAIN players) =>
              n.data.position = players[n.data.playerId].position

\* C38: a notification about room R is delivered only to connections that
\* are members of R when it is emitted; a connection that never joined R
\* receives nothing about R, whatever events it sends.
NotesOnlyToMembers ==
  \A n \in Notes(out) :
    \A c \in n.to :
      /\ n.room \in sockRooms[c]
      /\ n.room \in DOMAIN rooms
      /\ c \in DOMAIN rooms[n.room]

\* C39: on disconnect, for each room the connection was a member of,
\* exactly one departure notification is emitted, to the remaining members,
\* carrying the connection's id and the display name stored for the player
\* (a name in a notification is a set: the name, or empty when undefined).
DepartureCarriesStoredName ==
  [][\A c \in Conns :
       (conn[c] = "open" /\ conn'[c] = "closed") =>
         \A g \in DOMAIN rooms :
           c \in DOMAIN rooms[g] =>
             \E k \in 1..Len(out') :
               /\ out'[k].event = "playerLeft"
               /\ out'[k].room = g
               /\ out'[k].to = DOMAIN rooms[g] \ {c}
               /\ out'[k].data.playerId = c
               /\ out'[k].data.name = {rooms[g][c].name}
               /\ \A j \in 1..Len(out') :
                    (out'[j].event = "playerLeft" /\ out'[j].room = g) => j = k]_vars

\* C40: the alive flag gates only being the target of a hit. A dead player
\* that is still a member of the room is credited like an alive one when
\* it is named as the shooter of a hit on an alive member (20 plus half the
\* target's score, rounded down) and when it collects a collectible (the
\* collectible's value), its move events are applied, and it stays dead.
DeadPlayerStillActs ==
  [][\A g \in DOMAIN rooms : \A p \in DOMAIN rooms[g] :
       ~rooms[g][p].isAlive =>
         /\ last'.ev = "playerHit" =>
              \A c \in Conns, t \in DOMAIN rooms[g] \ {p} :
                (rooms[g][t].isAlive /\ PlayerHitAny(c, g, p, t)) =>
                  /\ last'.result = "kill"
                  /\ rooms'[g][p].score
                       = rooms[g][p].score + 20 + (rooms[g][t].score \div 2)
                  /\ ~rooms'[g][p].isAlive
         /\ last'.ev \in {"farmObjectHit", "collectResource"} =>
              \A id \in DOMAIN globalFarmObjects[g] :
                (FarmObjectHit(p, g, id) \/ CollectResource(p, g, id)) =>
                  /\ last'.result = "collected"
                  /\ id \notin DOMAIN globalFarmObjects'[g]
                  /\ rooms'[g][p].score
                       = rooms[g][p].score + globalFarmObjects[g][id].value
                  /\ ~rooms'[g][p].isAlive
         /\ last'.ev = "playerMove" =>
              \A pos \in MovePositions, v \in MoveVelocities :
                PlayerMove(p, g, pos, v) =>
                  /\ last'.result = "moved"
                  /\ rooms'[g][p].position = pos
                  /\ ~rooms'[g][p].isAlive]_vars

\* A dead player was named as the shooter of a valid hit: the player it
\* killed first is dead too, and both have been credited with a kill.
DeadShooterScored ==
  /\ last = [ev |-> "playerHit", result |-> "kill"]
  /\ \E g \in DOMAIN rooms, p \in Conns, q \in Conns :
       /\ p # q
       /\ p \in DOMAIN rooms[g] /\ q \in DOMAIN rooms[g]
       /\ ~rooms[g][p].isAlive /\ ~rooms[g][q].isAlive
       /\ rooms[g][p].score >= KillBonus
       /\ rooms[g][q].score > 0
       /\ BagCardinality(timers) = 2

====
